---- MODULE Spec2Model ----
(***************************************************************************)
(* A model of the numeric core of NOCTIS ORBIT: the change-detection       *)
(* pipeline of App/src/lib/analysis.ts, the object detection of            *)
(* App/src/lib/objectDetection.ts, and the handler of                      *)
(* App/src/components/AnalysisPanel.tsx that runs a detection for a panel. *)
(*                                                                         *)
(* Every function of the source is an operator computed the way the code   *)
(* computes it (same loops, same index arithmetic, same tie-breaks).  Each *)
(* family of functions has its own specification: Init draws the inputs of *)
(* one call from bounded sets, and the action performs the call.           *)
(*                                                                         *)
(* Numbers.  Samples are integers (every integer of the model is exactly   *)
(* representable as a Float32).  Quotients the code compares or stores are *)
(* kept exact as pairs <<numerator, denominator>> with denominator > 0.    *)
(*                                                                         *)
(* Asynchrony.  The handler is an async function: the code between two     *)
(* awaits is one action, and the handlers of several panels interleave at  *)
(* their awaits.                                                           *)
(***************************************************************************)
EXTENDS Integers, Sequences, FiniteSets, TLC

VARIABLES
  pc,          \* position of the modelled call: "start" before it, "done" after
  fn,          \* analysis.ts call: the function called
  args,        \* analysis.ts call: its arguments
  ret,         \* analysis.ts call: what it returned ("none" before it returns)
  boxes,       \* nonMaximumSuppression: the caller's array of DetectionBox
  threshold,   \* nonMaximumSuppression: the threshold argument, or Undefined
  keep,        \* nonMaximumSuppression: the returned array, as references
               \* (indices into the caller's array at the time of the call)
  lastDebug,   \* detectObjects.__lastDebug, the property of the function object
  panels,      \* the mounted ObjectDetectionPanel components: props, state and
               \* the position of the handleRunDetection invocation of each
  storage,     \* window.localStorage: the item text of each key, or Null
  persisted    \* history of the model only: per key, the values passed to
               \* the persist calls so far, oldest first

callVars == <<fn, args, ret>>

nmsVars == <<boxes, threshold, keep>>

detectVars == <<lastDebug, panels>>

storeVars == <<storage, persisted>>

vars == <<pc, callVars, nmsVars, detectVars, storeVars>>

\* A family that takes no part in a specification stays at these values.
CallIdle ==
  /\ fn = "none"
  /\ args = <<>>
  /\ ret = "none"

NmsIdle ==
  /\ boxes = <<>>
  /\ threshold = <<>>
  /\ keep = <<>>

\* No panel is mounted and no detection has run.
DetectIdle ==
  /\ lastDebug = <<>>
  /\ panels = <<>>

\* Nothing is stored and no persist call was made.
StoreIdle ==
  /\ storage = <<>>
  /\ persisted = <<>>

\* Which families of variables an action of family s leaves alone.
Others(s) ==
  /\ IF s = "nms" THEN TRUE ELSE UNCHANGED nmsVars
  /\ IF s = "call" THEN TRUE ELSE UNCHANGED callVars
  /\ IF s = "detect" THEN TRUE ELSE UNCHANGED detectVars
  /\ IF s = "store" THEN TRUE ELSE UNCHANGED storeVars

-----------------------------------------------------------------------------
(* Exact arithmetic helpers.                                               *)

Min(a, b) == IF a <= b THEN a ELSE b

Max(a, b) == IF a >= b THEN a ELSE b

Abs(a) == IF a >= 0 THEN a ELSE -a

\* p/q >= r/s for positive denominators
RatGE(p, r) == p[1] * r[2] >= r[1] * p[2]

RatEQ(p, r) == p[1] * r[2] = r[1] * p[2]

\* a/b > c/d for a, c >= 0 and b, d > 0, by the Euclidean algorithm (no
\* product is formed, so large numerators do not overflow).
RECURSIVE FracGT(_, _, _, _)
FracGT(a, b, c, d) ==
  LET qa == a \div b
      qc == c \div d
      ra == a % b
      rc == c % d
  IN IF a = c /\ b = d THEN FALSE
     ELSE IF qa # qc THEN qa > qc
     ELSE IF ra = 0 THEN FALSE
     ELSE IF rc = 0 THEN TRUE
     ELSE FracGT(d, rc, b, ra)

\* Math.round(num/den) for den > 0: the nearest integer, halves upwards.
Round(num, den) == (2 * num + den) \div (2 * den)

RECURSIVE SeqSum(_)
SeqSum(s) ==
  IF Len(s) <= 1 THEN (IF Len(s) = 0 THEN 0 ELSE s[1])
  ELSE SeqSum(SubSeq(s, 1, Len(s) \div 2))
         + SeqSum(SubSeq(s, (Len(s) \div 2) + 1, Len(s)))

\* An optional value: <<>> is undefined, a number v is given as <<v>>, a pair
\* as itself.  OrElse is the ?? operator on optional numbers.
Undefined == <<>>

Some(v) == <<v>>

OrElse(opt, default) == IF opt = Undefined THEN default ELSE opt[1]

\* Arrays are sequences; the code's index i is position i + 1.
At(a, i) == a[i + 1]

\* A freshly filled array, element i holding f[i], as a stored sequence.
ArrayOf(f) == f \o <<>>

Popcount(mask) == Cardinality({i \in 1..Len(mask) : mask[i] # 0})

-----------------------------------------------------------------------------
(* analysis.ts: percentile, normalizeToUint8, absoluteDifference.          *)

\* A sample is a whole number of units, or one of the non-finite numbers
\* "NaN", "Infinity", "-Infinity"; Number.isFinite tells them apart.
IsFinite(v) ==
  ToString(v) \notin {ToString("NaN"), ToString("Infinity"), ToString("-Infinity")}

\* The position (from 0) each element takes in the ascending order, equal
\* elements keeping their order.
SortedPositions(s) ==
  ArrayOf([i \in 1..Len(s) |->
     Cardinality({j \in 1..Len(s) : s[j] < s[i] \/ (s[j] = s[i] /\ j < i)})])

Reordered(s, positions) ==
  ArrayOf([k \in 1..Len(s) |->
     s[CHOOSE i \in 1..Len(s) : positions[i] = k - 1]])

\* arr.sort((a, b) => a - b)
SortAscending(s) == Reordered(s, SortedPositions(s))

percentileTruncated(values, p10) ==
  LET arr == SortAscending(SelectSeq(values, IsFinite))
      idx == Min(Len(arr) - 1, Max(0, (p10 * (Len(arr) - 1)) \div 1000))
  IN IF arr = <<>> THEN 0 ELSE At(arr, idx)

\* percentile(values, p), p given in tenths of a percent (20 is p = 2).
percentile(values, p10) ==
  LET arr == SortAscending(SelectSeq(values, IsFinite))
      idx == Min(Len(arr) - 1, Max(0, Round(p10 * (Len(arr) - 1), 1000)))
  IN IF arr = <<>> THEN 0 ELSE At(arr, idx)

\* The range floor 1e-6 of normalizeToUint8 and normalize as a quotient
\* <<n, d>> of the unit the samples are counted in: <<1, 1000000>> for whole
\* samples, <<65536, 15625>> (1e-6 * 2^22) for samples counted in 2^-22.
WholeUnit == <<1, 1000000>>
FineUnit == <<65536, 15625>>

\* One sample of normalizeToUint8: ((v - p2) / range) * 255 rounded and
\* clamped to 0..255, with range = max(1e-6, p98 - p2); a non-finite value
\* becomes 0.  Below the floor the range is 1e-6 itself.
StretchSample(v, p2, p98, floor) ==
  IF ~IsFinite(v) THEN 0
  ELSE IF (p98 - p2) * floor[2] >= floor[1]
       THEN Min(255, Max(0, Round((v - p2) * 255, p98 - p2)))
       ELSE IF v <= p2 THEN 0
       ELSE IF (v - p2) * floor[2] >= floor[1] THEN 255
       ELSE Min(255, Round((v - p2) * 255 * floor[2], floor[1]))

\* normalizeToUint8 on samples counted in the unit of floor.
normalizeToUint8In(values, floor) ==
  LET p2 == percentile(values, 20)
      p98 == percentile(values, 980)
  IN ArrayOf([i \in 1..Len(values) |->
                StretchSample(values[i], p2, p98, floor)])

normalizeToUint8(values) == normalizeToUint8In(values, WholeUnit)

absoluteDifference(a, b) ==
  ArrayOf([i \in 1..Len(a) |->
     Abs((IF i <= Len(b) THEN b[i] ELSE 0) - a[i])])

-----------------------------------------------------------------------------
(* analysis.ts: otsuThreshold.                                             *)

\* new Array(256).fill(0) after the counting pass, bin b at position b + 1.
Histogram(values) ==
  LET present == {values[i] : i \in 1..Len(values)}
  IN ArrayOf([k \in 1..256 |->
                IF (k - 1) \in present
                THEN Cardinality({i \in 1..Len(values) : values[i] = k - 1})
                ELSE 0])

\* wB * wF * (mB - mF)^2 with mB = sumB / wB and mF = (sum - sumB) / wF, as
\* an exact quotient.
BetweenClassVariance(wB, wF, sumB, sum) ==
  LET x == sumB * wF - (sum - sumB) * wB
  IN <<x * x, wB * wF>>

\* One iteration that takes a later bin at an equal variance (>= for >).
OtsuStepLastMax(h, i, st) ==
  IF st.stop THEN st
  ELSE LET count == At(h.histogram, i)
           wB == st.wB + count
       IN IF wB = 0 THEN st
          ELSE LET wF == h.total - wB
               IN IF wF = 0 THEN [st EXCEPT !.wB = wB, !.stop = TRUE]
                  ELSE LET sumB == st.sumB + i * count
                           variance == BetweenClassVariance(wB, wF, sumB, h.sum)
                       IN IF ~FracGT(st.varMax[1], st.varMax[2], variance[1], variance[2])
                          THEN [wB |-> wB, sumB |-> sumB, varMax |-> variance,
                                threshold |-> i, stop |-> FALSE]
                          ELSE [st EXCEPT !.wB = wB, !.sumB = sumB]

\* One iteration of the loop over the bins; h holds histogram, total and sum,
\* st carries wB, sumB, varMax and threshold, and stop once the loop has met
\* its break.
OtsuStep(h, i, st) ==
  IF st.stop THEN st
  ELSE LET count == At(h.histogram, i)
           wB == st.wB + count
       IN IF wB = 0 THEN st
          ELSE LET wF == h.total - wB
               IN IF wF = 0 THEN [st EXCEPT !.wB = wB, !.stop = TRUE]
                  ELSE LET sumB == st.sumB + i * count
                           variance == BetweenClassVariance(wB, wF, sumB, h.sum)
                       IN IF FracGT(variance[1], variance[2], st.varMax[1], st.varMax[2])
                          THEN [wB |-> wB, sumB |-> sumB, varMax |-> variance,
                                threshold |-> i, stop |-> FALSE]
                          ELSE [st EXCEPT !.wB = wB, !.sumB = sumB]

\* for (let i = 0; i < 256; i += 1), run as 16 runs of 16 iterations; the
\* break ends the loop.
RECURSIVE OtsuBins(_, _, _, _)
OtsuBins(h, i, end, st) ==
  IF i >= end THEN st
  ELSE LET next == OtsuStep(h, i, st)
       IN IF next.stop THEN next
          ELSE OtsuBins(h, i + 1, end, next)

RECURSIVE OtsuLoop(_, _, _)
OtsuLoop(h, i, st) ==
  IF i >= 256 THEN st
  ELSE LET next == OtsuBins(h, i, i + 16, st)
       IN IF next.stop THEN next
          ELSE OtsuLoop(h, i + 16, next)

otsuThreshold(values) ==
  LET h == [histogram |-> Histogram(values), total |-> Len(values),
            sum |-> SeqSum(values)]
  IN OtsuLoop(h, 0,
              [wB |-> 0, sumB |-> 0, varMax |-> <<0, 1>>, threshold |-> 0,
               stop |-> FALSE]).threshold

-----------------------------------------------------------------------------
(* analysis.ts: kmeans1D.  Centers are exact quotients <<sum, count>>.     *)

\* |v - c| as a quotient.
CenterDistance(v, c) == <<Abs(v * c[2] - c[1]), c[2]>>

\* p/q < r/s
RatLT(p, r) == p[1] * r[2] < r[1] * p[2]

\* The inner loop: idx is the first center at the smallest distance
\* (dist < minDist replaces, an equal distance does not).
NearestCenter(v, centers) ==
  CHOOSE c \in 0..(Len(centers) - 1) :
    /\ \A c2 \in 0..(c - 1) :
         RatLT(CenterDistance(v, At(centers, c)), CenterDistance(v, At(centers, c2)))
    /\ \A c2 \in (c + 1)..(Len(centers) - 1) :
         ~RatLT(CenterDistance(v, At(centers, c2)), CenterDistance(v, At(centers, c)))

\* Centers seeded with the first values instead of evenly spaced ones.
InitialCentersFirstValues(values, clusters) ==
  ArrayOf([c \in 1..clusters |-> <<At(values, Min(Len(values) - 1, c - 1)), 1>>])

InitialCenters(values, clusters) ==
  LET n == Len(values)
      step == Max(1, n \div clusters)
  IN ArrayOf([c \in 1..clusters |-> <<At(values, Min(n - 1, (c - 1) * step)), 1>>])

RECURSIVE KmeansLoop(_, _, _, _)
KmeansLoop(values, centers, labels, iterations) ==
  IF iterations <= 0 THEN [centers |-> centers, labels |-> labels]
  ELSE LET n == Len(values)
           assigned == ArrayOf([i \in 1..n |-> NearestCenter(values[i], centers)])
           members(c) == {i \in 1..n : assigned[i] = c}
           sums(c) == SeqSum([k \in 1..n |->
                                IF assigned[k] = c THEN values[k] ELSE 0])
           updated == ArrayOf([c \in 1..Len(centers) |->
                         IF members(c - 1) # {}
                         THEN <<sums(c - 1), Cardinality(members(c - 1))>>
                         ELSE centers[c]])
       IN KmeansLoop(values, updated, assigned, iterations - 1)

kmeans1D(values, clusters, iterations) ==
  KmeansLoop(values, InitialCenters(values, clusters),
             ArrayOf([i \in 1..Len(values) |-> 0]), iterations)

-----------------------------------------------------------------------------
(* analysis.ts: localAverage and computeMask.                              *)

\* The in-bounds taps of the square window of the given radius around
\* (x, y): out-of-bounds taps are skipped (continue), not wrapped or padded.
Window(x, y, width, height, radius) ==
  (Max(0, x - radius)..Min(width - 1, x + radius))
    \X (Max(0, y - radius)..Min(height - 1, y + radius))

\* A local average that divides by the full window size, as if the taps
\* outside the raster were zeros.
localAverageZeroPadded(values, width, height, radius) ==
  ArrayOf([i \in 1..Len(values) |->
     LET x == (i - 1) % width
         y == (i - 1) \div width
         taps == Window(x, y, width, height, radius)
         sum == SeqSum([k \in 1..Len(values) |->
                          IF <<(k - 1) % width, (k - 1) \div width>> \in taps
                          THEN values[k] ELSE 0])
     IN <<sum, (2 * radius + 1) * (2 * radius + 1)>>])

\* localAverage: per pixel the quotient <<sum, count>> over its window.
localAverage(values, width, height, radius) ==
  ArrayOf([i \in 1..Len(values) |->
     LET x == (i - 1) % width
         y == (i - 1) \div width
         taps == Window(x, y, width, height, radius)
         sum == SeqSum([k \in 1..Len(values) |->
                          IF <<(k - 1) % width, (k - 1) \div width>> \in taps
                          THEN values[k] ELSE 0])
     IN IF taps # {} THEN <<sum, Cardinality(taps)>> ELSE <<values[i], 1>>])

\* A contamination taken as given, without the clamp.
ContaminationAsGiven(c) == OrElse(c, 100)

\* contamination in units of 1/10000:
\* Math.min(0.5, Math.max(0.0005, options.contamination ?? 0.01)).
ClampContamination(c) ==
  Min(5000, Max(5, OrElse(c, 100)))

\* A rank index that truncates n * (1 - contamination) instead of rounding.
RankIndexTruncated(n, contamination) ==
  Max(0, Min(n - 1, (n * (10000 - contamination)) \div 10000))

\* The index Math.max(0, Math.min(n - 1, Math.round(n * (1 - contamination)))).
RankIndex(n, contamination) ==
  Max(0, Min(n - 1, Round(n * (10000 - contamination), 10000)))

\* centers.map(...).sort(by value) is stable, and the change cluster is the
\* last entry: the highest center, the last of equal ones.
ChangeCluster(centers) ==
  CHOOSE c \in 0..(Len(centers) - 1) :
    /\ \A c2 \in 0..(c - 1) : RatGE(At(centers, c), At(centers, c2))
    /\ \A c2 \in (c + 1)..(Len(centers) - 1) :
         ~RatGE(At(centers, c2), At(centers, c))

\* A threshold pass that also sets the pixels equal to the threshold.
ThresholdMaskInclusive(diff, thr) ==
  ArrayOf([i \in 1..Len(diff) |-> IF diff[i] >= thr THEN 1 ELSE 0])

\* mask[i] = diff[i] > threshold ? 1 : 0
ThresholdMask(diff, thr) ==
  ArrayOf([i \in 1..Len(diff) |-> IF diff[i] > thr THEN 1 ELSE 0])

computeMask(diff, width, height, options) ==
  LET n == Len(diff)
      contamination == ClampContamination(options.contamination)
  IN CASE options.algorithm = "otsu" ->
            LET manual == options.otsuManualThreshold
                thr == IF manual # Undefined
                       THEN Round(manual[1] * 255, manual[2])
                       ELSE otsuThreshold(diff)
            IN ThresholdMask(diff, thr)
       [] options.algorithm = "adaptive" ->
            LET local == localAverage(diff, width, height, 3)
            IN ArrayOf([i \in 1..n |->
                  \* diff[i] > local[i] + 8
                  IF diff[i] * local[i][2] > local[i][1] + 8 * local[i][2]
                  THEN 1 ELSE 0])
       [] options.algorithm = "kmeans" ->
            LET clusters == Max(2, OrElse(options.kmeansClusters, 2))
                iterations == Max(1, OrElse(options.kmeansIterations, 6))
                km == kmeans1D(diff, clusters, iterations)
                changeCluster == ChangeCluster(km.centers)
            IN ArrayOf([i \in 1..n |-> IF km.labels[i] = changeCluster THEN 1 ELSE 0])
       [] options.algorithm = "isolation_forest" ->
            LET sorted == SortAscending(diff)
                thr == At(sorted, RankIndex(n, contamination))
            IN ArrayOf([i \in 1..n |-> IF diff[i] >= thr THEN 1 ELSE 0])
       [] options.algorithm = "lof" ->
            LET local == localAverage(diff, width, height, 2)
            IN ArrayOf([i \in 1..n |->
                  \* diff[i] - local[i] > 12
                  IF diff[i] * local[i][2] - local[i][1] > 12 * local[i][2]
                  THEN 1 ELSE 0])
       [] options.algorithm = "pca" ->
            \* |value - mean| / std with mean = sum / n and one positive std
            \* for all pixels: the scores are ordered as |value * n - sum|.
            LET sum == SeqSum(diff)
                scores == ArrayOf([i \in 1..n |-> Abs(diff[i] * n - sum)])
                sorted == SortAscending(scores)
                thr == At(sorted, RankIndex(n, contamination))
            IN ArrayOf([i \in 1..n |-> IF scores[i] >= thr THEN 1 ELSE 0])
       [] OTHER -> ArrayOf([i \in 1..n |-> 0])

-----------------------------------------------------------------------------
(* analysis.ts: dilate, erode, removeSmallComponents, fillHoles and        *)
(* postProcessMask.  A mask is a sequence of 0/1, row-major.               *)

PixelX(i, width) == (i - 1) % width

PixelY(i, width) == (i - 1) \div width

\* position (1-based) of pixel (x, y)
PixelAt(x, y, width) == y * width + x + 1

\* A dilate whose inner loop stops one tap early (dx < radius).
dilateShortRow(mask, width, height, radius) ==
  IF radius <= 0 THEN mask
  ELSE ArrayOf([i \in 1..Len(mask) |->
          IF \E t \in Window(PixelX(i, width), PixelY(i, width), width, height, radius) :
               /\ t[1] < PixelX(i, width) + radius
               /\ mask[PixelAt(t[1], t[2], width)] # 0
          THEN 1 ELSE 0])

dilate(mask, width, height, radius) ==
  IF radius <= 0 THEN mask
  ELSE ArrayOf([i \in 1..Len(mask) |->
          IF \E t \in Window(PixelX(i, width), PixelY(i, width), width, height, radius) :
               mask[PixelAt(t[1], t[2], width)] # 0
          THEN 1 ELSE 0])

erode(mask, width, height, radius) ==
  IF radius <= 0 THEN mask
  ELSE ArrayOf([i \in 1..Len(mask) |->
          IF \A t \in Window(PixelX(i, width), PixelY(i, width), width, height, radius) :
               mask[PixelAt(t[1], t[2], width)] # 0
          THEN 1 ELSE 0])

\* The four neighbour indices in the order the code visits them.
Neighbours(idx, width) == <<idx - 1, idx + 1, idx - width, idx + width>>

\* |nx - x| + |ny - y| for two indices of a raster of the given width.
GridDistance(n, idx, width) ==
  Abs((n % width) - (idx % width)) + Abs((n \div width) - (idx \div width))

\* A neighbour test without the row check: idx - 1 and idx + 1 count as
\* neighbours also across a row end.
RscVisitNoRowCheck(mask, width, idx, n, st) ==
  IF n < 0 \/ n >= Len(mask) THEN st
  ELSE IF At(mask, n) = 0 \/ n \in st.visited THEN st
  ELSE [visited |-> st.visited \cup {n}, queue |-> Append(st.queue, n)]

\* removeSmallComponents: the body of "for (const n of neighbours)" for one
\* neighbour n of idx; st holds visited (a set of indices) and queue.
RscVisit(mask, width, idx, n, st) ==
  IF n < 0 \/ n >= Len(mask) THEN st
  ELSE IF At(mask, n) = 0 \/ n \in st.visited THEN st
  ELSE IF GridDistance(n, idx, width) > 1 THEN st
  ELSE [visited |-> st.visited \cup {n}, queue |-> Append(st.queue, n)]

RECURSIVE RscNeighbours(_, _, _, _, _, _)
RscNeighbours(mask, width, idx, ns, k, st) ==
  IF k > Len(ns) THEN st
  ELSE RscNeighbours(mask, width, idx, ns, k + 1,
                     RscVisit(mask, width, idx, ns[k], st))

\* while (queue.length): pop the last index, add it to the component, visit
\* its neighbours.
RECURSIVE RscFlood(_, _, _, _)
RscFlood(mask, width, st, component) ==
  IF st.queue = <<>> THEN [visited |-> st.visited, component |-> component]
  ELSE LET idx == st.queue[Len(st.queue)]
           popped == [visited |-> st.visited,
                      queue |-> SubSeq(st.queue, 1, Len(st.queue) - 1)]
       IN RscFlood(mask, width,
                   RscNeighbours(mask, width, idx, Neighbours(idx, width), 1, popped),
                   Append(component, idx))

\* for (let i = 0; i < mask.length; i += 1)
RECURSIVE RscScan(_, _, _, _, _, _)
RscScan(mask, width, minArea, i, out, visited) ==
  IF i >= Len(mask) THEN out
  ELSE IF At(mask, i) = 0 \/ i \in visited
       THEN RscScan(mask, width, minArea, i + 1, out, visited)
       ELSE LET f == RscFlood(mask, width,
                              [visited |-> visited \cup {i}, queue |-> <<i>>], <<>>)
                members == {f.component[k] : k \in 1..Len(f.component)}
                cleared == ArrayOf([k \in 1..Len(out) |->
                              IF (k - 1) \in members THEN 0 ELSE out[k]])
            IN RscScan(mask, width, minArea, i + 1,
                       IF Len(f.component) < minArea THEN cleared ELSE out,
                       f.visited)

removeSmallComponents(mask, width, height, minArea) ==
  IF minArea <= 1 THEN mask
  ELSE RscScan(mask, width, minArea, 0, mask, {})

\* fillHoles: pushIfBackground(idx); st holds visited and queue.
pushIfBackground(out, idx, st) ==
  IF idx < 0 \/ idx >= Len(out) THEN st
  ELSE IF At(out, idx) # 0 \/ idx \in st.visited THEN st
  ELSE [visited |-> st.visited \cup {idx}, queue |-> Append(st.queue, idx)]

RECURSIVE PushAll(_, _, _, _)
PushAll(out, idxs, k, st) ==
  IF k > Len(idxs) THEN st
  ELSE PushAll(out, idxs, k + 1, pushIfBackground(out, idxs[k], st))

\* Seeds from the first and last row only, without the loop over the
\* first and last column.
BorderSeedsRowsOnly(width, height) ==
  ArrayOf([k \in 1..(2 * width) |->
     IF k % 2 = 1 THEN (k - 1) \div 2
     ELSE (height - 1) * width + ((k - 1) \div 2)])

\* The border indices in the order of the two seeding loops.
BorderSeeds(width, height) ==
  ArrayOf([k \in 1..(2 * width) |->
     IF k % 2 = 1 THEN (k - 1) \div 2
     ELSE (height - 1) * width + ((k - 1) \div 2)])
  \o
  ArrayOf([k \in 1..(2 * height) |->
     IF k % 2 = 1 THEN ((k - 1) \div 2) * width
     ELSE ((k - 1) \div 2) * width + (width - 1)])

FillVisit(out, width, idx, n, st) ==
  IF n < 0 \/ n >= Len(out) THEN st
  ELSE IF GridDistance(n, idx, width) > 1 THEN st
  ELSE pushIfBackground(out, n, st)

RECURSIVE FillNeighbours(_, _, _, _, _, _)
FillNeighbours(out, width, idx, ns, k, st) ==
  IF k > Len(ns) THEN st
  ELSE FillNeighbours(out, width, idx, ns, k + 1,
                      FillVisit(out, width, idx, ns[k], st))

RECURSIVE FillFlood(_, _, _)
FillFlood(out, width, st) ==
  IF st.queue = <<>> THEN st.visited
  ELSE LET idx == st.queue[Len(st.queue)]
           popped == [visited |-> st.visited,
                      queue |-> SubSeq(st.queue, 1, Len(st.queue) - 1)]
       IN FillFlood(out, width,
                    FillNeighbours(out, width, idx, Neighbours(idx, width), 1, popped))

fillHoles(mask, width, height) ==
  LET seeded == PushAll(mask, BorderSeeds(width, height), 1,
                        [visited |-> {}, queue |-> <<>>])
      visited == FillFlood(mask, width, seeded)
  IN ArrayOf([k \in 1..Len(mask) |->
        IF mask[k] = 0 /\ (k - 1) \notin visited THEN 1 ELSE mask[k]])

postProcessMask(mask, width, height, options) ==
  LET opened == IF options.openingRadius > 0
                THEN dilate(erode(mask, width, height, options.openingRadius),
                            width, height, options.openingRadius)
                ELSE mask
      closed == IF options.closingRadius > 0
                THEN erode(dilate(opened, width, height, options.closingRadius),
                           width, height, options.closingRadius)
                ELSE opened
      filled == IF options.fillHoles THEN fillHoles(closed, width, height) ELSE closed
  IN IF options.minBlobArea > 1
     THEN removeSmallComponents(filled, width, height, options.minBlobArea)
     ELSE filled

\* Uint8Array objects in a heap: new Uint8Array(...) appends an array and
\* yields its reference.
NewUint8Array(heap, contents) ==
  [heap |-> Append(heap, contents), ref |-> Len(heap) + 1]

\* postProcessMask that closes before it opens.
postProcessMaskClosingFirst(heap, mask, width, height, options) ==
  LET copy == NewUint8Array(heap, heap[mask])
      closed == IF options.closingRadius > 0
                THEN LET d == NewUint8Array(copy.heap,
                                 dilate(copy.heap[copy.ref], width, height,
                                        options.closingRadius))
                     IN NewUint8Array(d.heap,
                          erode(d.heap[d.ref], width, height, options.closingRadius))
                ELSE copy
      opened == IF options.openingRadius > 0
                THEN LET e == NewUint8Array(closed.heap,
                                 erode(closed.heap[closed.ref], width, height,
                                       options.openingRadius))
                     IN NewUint8Array(e.heap,
                          dilate(e.heap[e.ref], width, height, options.openingRadius))
                ELSE closed
      filled == IF options.fillHoles
                THEN NewUint8Array(opened.heap,
                       fillHoles(opened.heap[opened.ref], width, height))
                ELSE opened
  IN IF options.minBlobArea > 1
     THEN NewUint8Array(filled.heap,
            removeSmallComponents(filled.heap[filled.ref], width, height,
                                  options.minBlobArea))
     ELSE filled

\* postProcessMask on the heap: out starts as a copy of the caller's mask,
\* and every stage that runs reads the array out refers to and stores its
\* result in arrays of its own (erode, dilate: new Uint8Array(mask.length);
\* fillHoles, removeSmallComponents: new Uint8Array(mask)), none writes to
\* its argument.
postProcessMaskOnHeap(heap, mask, width, height, options) ==
  LET copy == NewUint8Array(heap, heap[mask])
      opened == IF options.openingRadius > 0
                THEN LET e == NewUint8Array(copy.heap,
                                 erode(copy.heap[copy.ref], width, height,
                                       options.openingRadius))
                     IN NewUint8Array(e.heap,
                          dilate(e.heap[e.ref], width, height, options.openingRadius))
                ELSE copy
      closed == IF options.closingRadius > 0
                THEN LET d == NewUint8Array(opened.heap,
                                 dilate(opened.heap[opened.ref], width, height,
                                        options.closingRadius))
                     IN NewUint8Array(d.heap,
                          erode(d.heap[d.ref], width, height, options.closingRadius))
                ELSE opened
      filled == IF options.fillHoles
                THEN NewUint8Array(closed.heap,
                       fillHoles(closed.heap[closed.ref], width, height))
                ELSE closed
  IN IF options.minBlobArea > 1
     THEN NewUint8Array(filled.heap,
            removeSmallComponents(filled.heap[filled.ref], width, height,
                                  options.minBlobArea))
     ELSE filled

-----------------------------------------------------------------------------
(* analysis.ts: resampleFloat32Nearest and applySpeckleFilter.             *)

\* Math.min(src - 1, Math.round((i + 0.5) * (src / dst) - 0.5))
NearestSource(i, src, dst) ==
  Min(src - 1, Round((2 * i + 1) * src - dst, 2 * dst))

\* The indices srcY * srcWidth + srcX at which the resampling loops read
\* data.
ResampleReads(srcWidth, srcHeight, dstWidth, dstHeight) ==
  {NearestSource(y, srcHeight, dstHeight) * srcWidth
     + NearestSource(x, srcWidth, dstWidth) :
       x \in 0..(dstWidth - 1), y \in 0..(dstHeight - 1)}

resampleFloat32Nearest(data, srcWidth, srcHeight, dstWidth, dstHeight) ==
  IF srcWidth = dstWidth /\ srcHeight = dstHeight THEN data
  ELSE ArrayOf([i \in 1..(dstWidth * dstHeight) |->
          LET srcY == NearestSource(PixelY(i, dstWidth), srcHeight, dstHeight)
              srcX == NearestSource(PixelX(i, dstWidth), srcWidth, dstWidth)
          IN At(data, srcY * srcWidth + srcX)])

\* The local statistics of one pixel: meanCache = sum / count and
\* varCache = max(0, sumSq / count - mean^2), as exact quotients.
LocalStats(values, width, height, radius, i) ==
  LET taps == Window(PixelX(i, width), PixelY(i, width), width, height, radius)
      inWin == ArrayOf([k \in 1..Len(values) |->
                  <<PixelX(k, width), PixelY(k, width)>> \in taps])
      sum == SeqSum([k \in 1..Len(values) |-> IF inWin[k] THEN values[k] ELSE 0])
      sumSq == SeqSum([k \in 1..Len(values) |->
                         IF inWin[k] THEN values[k] * values[k] ELSE 0])
      count == Cardinality(taps)
  IN IF count > 0
     THEN [mean |-> <<sum, count>>,
           variance |-> <<Max(0, sumSq * count - sum * sum), count * count>>]
     ELSE [mean |-> <<values[i], 1>>, variance |-> <<0, 1>>]

\* The blended sample of one pixel.  The weights of lee
\* (variance / (variance + overallVar + 1e-6)), kuan (ENL = 4) and frost
\* (exp(-2 * variance / max(overallVar, 1e-6))) are not all rational, so the
\* sample is kept as the term of its filter over the quantities it blends;
\* any other filter name stores the value itself.
SpeckleSample(filter, value, stats, overallVar) ==
  IF filter \in {"lee", "kuan", "frost"}
  THEN [filter |-> filter, value |-> value, mean |-> stats.mean,
        variance |-> stats.variance, overallVar |-> overallVar]
  ELSE value

\* The contents of the array applySpeckleFilter returns.
SpeckleFiltered(values, width, height, filterArg, sizeArg) ==
  LET filter == IF filterArg = "undefined" THEN "none" ELSE filterArg
      size == OrElse(sizeArg, 3)
      n == Len(values)
      radius == Max(1, size \div 2)
      total == SeqSum(values)
      totalSq == SeqSum([k \in 1..n |-> values[k] * values[k]])
      overallVar == <<n * totalSq - total * total, n * n>>
  IN IF filter = "none" \/ size <= 1 THEN values
     ELSE ArrayOf([i \in 1..n |->
             SpeckleSample(filter, values[i],
                           LocalStats(values, width, height, radius, i),
                           overallVar)])

\* Float32Array objects live in a heap (a sequence of arrays); a reference
\* is a position in it, and new Float32Array(...) appends.
NewFloat32Array(heap, contents) ==
  [heap |-> Append(heap, contents), ref |-> Len(heap) + 1]

\* A pass-through branch that hands the caller's own array back.
applySpeckleFilterAliased(heap, values, width, height, filter, size) ==
  IF filter \in {"none", "undefined"} \/ OrElse(size, 3) <= 1
  THEN [heap |-> heap, ref |-> values]
  ELSE NewFloat32Array(heap, SpeckleFiltered(heap[values], width, height, filter, size))

\* applySpeckleFilter on the heap: values is a reference, the result is the
\* heap after the call and the reference returned.  Both return statements
\* return an array allocated by the call; values is only read.
applySpeckleFilter(heap, values, width, height, filter, size) ==
  NewFloat32Array(heap, SpeckleFiltered(heap[values], width, height, filter, size))

-----------------------------------------------------------------------------
(* analysis.ts: analyzeChange, from the two decoded rasters (the results   *)
(* of readSingleBand) to the numeric fields of ChangeDetectionResult.  The *)
(* preview images are rendering and are left out.                          *)

\* An alignment that hands the before raster on as it is.
AlignBeforeNoResample(before, width, height) == before.data

\* alignedBefore: a copy of the before raster when the sizes agree, and its
\* nearest-neighbour resampling to the after raster's size otherwise.
AlignBefore(before, width, height) ==
  IF before.width = width /\ before.height = height
  THEN before.data
  ELSE resampleFloat32Nearest(before.data, before.width, before.height,
                              width, height)

\* changeAreaKm2
ChangeArea(changedPixels, pixelScale) ==
  IF pixelScale = Undefined THEN "null"
  ELSE LET pixelArea == Abs(pixelScale[1] * pixelScale[2])
       IN IF pixelArea > 0 THEN <<changedPixels * pixelArea, 1000000>> ELSE "null"

\* An analyzeChange that counts the mask before post-processing.
analyzeChangeCountsRaw(before, after, options) ==
  LET width == after.width
      height == after.height
      alignedBefore == AlignBefore(before, width, height)
      filteredBefore == SpeckleFiltered(alignedBefore, width, height,
                                        options.speckleFilter, options.speckleSize)
      filteredAfter == SpeckleFiltered(after.data, width, height,
                                       options.speckleFilter, options.speckleSize)
      diffDisplay == normalizeToUint8(absoluteDifference(filteredBefore, filteredAfter))
      rawMask == computeMask(diffDisplay, width, height, options)
      processedMask == postProcessMask(rawMask, width, height, options.postProcess)
      changedPixels == Popcount(rawMask)
  IN [mask |-> processedMask,
      diff |-> diffDisplay,
      changedPixels |-> changedPixels,
      changePercentage |-> <<changedPixels * 100, width * height>>,
      changeAreaKm2 |-> ChangeArea(changedPixels,
                                   IF after.pixelScale # Undefined
                                   THEN after.pixelScale ELSE before.pixelScale),
      originalWidth |-> width,
      originalHeight |-> height]

analyzeChange(before, after, options) ==
  LET width == after.width
      height == after.height
      alignedBefore == AlignBefore(before, width, height)
      filteredBefore == SpeckleFiltered(alignedBefore, width, height,
                                        options.speckleFilter, options.speckleSize)
      filteredAfter == SpeckleFiltered(after.data, width, height,
                                       options.speckleFilter, options.speckleSize)
      diffDisplay == normalizeToUint8(absoluteDifference(filteredBefore, filteredAfter))
      rawMask == computeMask(diffDisplay, width, height, options)
      processedMask == postProcessMask(rawMask, width, height, options.postProcess)
      changedPixels == Popcount(processedMask)
  IN [mask |-> processedMask,
      diff |-> diffDisplay,
      changedPixels |-> changedPixels,
      changePercentage |-> <<changedPixels * 100, width * height>>,
      changeAreaKm2 |-> ChangeArea(changedPixels,
                                   IF after.pixelScale # Undefined
                                   THEN after.pixelScale ELSE before.pixelScale),
      originalWidth |-> width,
      originalHeight |-> height]

-----------------------------------------------------------------------------
(* objectDetection.ts: iou and nonMaximumSuppression.                      *)

\* iou(a, b): intersection area over union area, 0 when the union is empty.
iou(a, b) ==
  LET x0 == Max(a.x, b.x)
      y0 == Max(a.y, b.y)
      x1 == Min(a.x + a.width, b.x + b.width)
      y1 == Min(a.y + a.height, b.y + b.height)
      w == Max(0, x1 - x0)
      h == Max(0, y1 - y0)
      inter == w * h
      union == a.width * a.height + b.width * b.height - inter
  IN IF union > 0 THEN <<inter, union>> ELSE <<0, 1>>

\* The default value of the threshold parameter.
NmsDefaultThreshold == <<3, 10>>

\* A sort that puts an element before its equals.
ConfidencePlaceUnstable(bs, n, i) ==
  Cardinality({k \in 1..n :
                 \/ bs[k].confidence > bs[i].confidence
                 \/ (bs[k].confidence = bs[i].confidence /\ k > i)})

\* Array.prototype.sort is stable: with the comparator
\* (b.confidence - a.confidence), box i of the first n goes after the boxes
\* of higher confidence and after the earlier boxes of the same confidence.
ConfidencePlace(bs, n, i) ==
  Cardinality({k \in 1..n :
                 \/ bs[k].confidence > bs[i].confidence
                 \/ (bs[k].confidence = bs[i].confidence /\ k < i)})

ConfidencePlaces(bs, n) == ArrayOf([i \in 1..n |-> ConfidencePlace(bs, n, i)])

PlacedAt(places) ==
  ArrayOf([p \in 1..Len(places) |->
             CHOOSE i \in 1..Len(places) : places[i] = p - 1])

\* The indices of the first n boxes in sorted order.
SortByConfidence(bs, n) == PlacedAt(ConfidencePlaces(bs, n))

\* A greedy step that only looks at the box kept last.
NmsStepLastOnly(bs, sorted, k, kept, t) ==
  IF /\ kept # <<>>
     /\ RatGE(iou(bs[sorted[k]].bbox, bs[kept[Len(kept)]].bbox), t)
  THEN kept ELSE Append(kept, sorted[k])

\* One iteration of the greedy loop, for the box sorted[k]; kept holds
\* references.
NmsStep(bs, sorted, k, kept, t) ==
  IF \E j \in 1..Len(kept) :
       RatGE(iou(bs[sorted[k]].bbox, bs[kept[j]].bbox), t)
  THEN kept ELSE Append(kept, sorted[k])

\* The n iterations of the greedy loop after the first k, as the first half
\* of them followed by the rest; k iterations keep at most k boxes.
RECURSIVE NmsLoop(_, _, _, _, _, _)
NmsLoop(bs, sorted, k, n, kept, t) ==
  IF n = 0 \/ Len(kept) > k THEN kept
  ELSE IF n = 1 THEN NmsStep(bs, sorted, k + 1, kept, t)
  ELSE NmsLoop(bs, sorted, k + (n \div 2), n - (n \div 2),
               NmsLoop(bs, sorted, k, n \div 2, kept, t), t)

\* nonMaximumSuppression(boxes, threshold): the caller's array after the call
\* (the sort works on boxes.slice()) and the returned array.
nonMaximumSuppression(bs, thr) ==
  LET t == IF thr = Undefined THEN NmsDefaultThreshold ELSE thr
      sorted == SortByConfidence(bs, Len(bs))
  IN [boxes |-> bs, keep |-> NmsLoop(bs, sorted, 0, Len(sorted), <<>>, t)]

-----------------------------------------------------------------------------
(* objectDetection.ts: buildPolygon.  A geographic number is a quotient    *)
(* <<n, d>> with d >= 0; d = 0 is a non-finite number (n > 0 Infinity,     *)
(* n < 0 -Infinity, n = 0 NaN).                                            *)

Sign(n) == IF n > 0 THEN 1 ELSE IF n < 0 THEN -1 ELSE 0

\* Number.isFinite
NumFinite(p) == p[2] # 0

\* p - q
NumSub(p, q) ==
  IF NumFinite(p) /\ NumFinite(q) THEN <<p[1] * q[2] - q[1] * p[2], p[2] * q[2]>>
  ELSE IF NumFinite(q) THEN <<Sign(p[1]), 0>>
  ELSE IF NumFinite(p) THEN <<-Sign(q[1]), 0>>
  ELSE IF Sign(p[1]) = -Sign(q[1]) THEN <<Sign(p[1]), 0>>
  ELSE <<0, 0>>

\* p + q for finite p and q
NumAdd(p, q) == <<p[1] * q[2] + q[1] * p[2], p[2] * q[2]>>

\* (a / b) * p for integers a, b with b > 0 and finite p
NumScale(a, b, p) == <<a * p[1], b * p[2]>>

\* The value null.
Null == [type |-> "null"]

\* toLon(px) = minX + (px / Math.max(width - 1, 1)) * lonSpan
ToLon(px, minX, lonSpan, width) ==
  NumAdd(minX, NumScale(px, Max(width - 1, 1), lonSpan))

\* A toLat that grows with py (minY + ...), rows counted from the south.
ToLatSouthUp(py, minY, maxY, latSpan, height) ==
  NumAdd(minY, NumScale(py, Max(height - 1, 1), latSpan))

\* toLat(py) = maxY - (py / Math.max(height - 1, 1)) * latSpan
ToLat(py, minY, maxY, latSpan, height) ==
  NumSub(maxY, NumScale(py, Max(height - 1, 1), latSpan))

buildPolygon(bbox, imageBounds, width, height) ==
  IF imageBounds = Undefined THEN Null
  ELSE LET minX == imageBounds[1]
           minY == imageBounds[2]
           maxX == imageBounds[3]
           maxY == imageBounds[4]
           lonSpan == NumSub(maxX, minX)
           latSpan == NumSub(maxY, minY)
           x0 == bbox.x
           y0 == bbox.y
           x1 == bbox.x + bbox.width
           y1 == bbox.y + bbox.height
           lon(px) == ToLon(px, minX, lonSpan, width)
           lat(py) == ToLat(py, minY, maxY, latSpan, height)
       IN IF ~NumFinite(lonSpan) \/ ~NumFinite(latSpan) THEN Null
          ELSE [type |-> "Feature",
                geometry |->
                  [type |-> "Polygon",
                   coordinates |-> << << <<lon(x0), lat(y1)>>,
                                         <<lon(x1), lat(y1)>>,
                                         <<lon(x1), lat(y0)>>,
                                         <<lon(x0), lat(y0)>>,
                                         <<lon(x0), lat(y1)>> >> >>]]

-----------------------------------------------------------------------------
(* objectDetection.ts: percentile, normalize, resampleNearest,             *)
(* createBinaryMask, applyMorphology.                                      *)

\* percentile(values, p) of objectDetection.ts, p given as a quotient
\* <<n, d>> (99.5 is <<199, 2>>): the element of the sorted finite values at
\* index min(length - 1, max(0, round(p / 100 * (length - 1)))).
detectionPercentile(values, p) ==
  LET copy == SortAscending(SelectSeq(values, IsFinite))
      index == Min(Len(copy) - 1,
                   Max(0, Round(p[1] * (Len(copy) - 1), 100 * p[2])))
  IN IF copy = <<>> THEN 0 ELSE At(copy, index)

\* normalize: the samples stretched from [p2, p99.5] to 0..255, clamped and
\* rounded; range = max(1e-6, p99 - p2), non-finite results become 0.
normalizeIn(values, floor) ==
  LET p2 == detectionPercentile(values, <<2, 1>>)
      p99 == detectionPercentile(values, <<199, 2>>)
  IN ArrayOf([i \in 1..Len(values) |->
                StretchSample(values[i], p2, p99, floor)])

normalize(values) == normalizeIn(values, WholeUnit)

resampleNearest(data, srcW, srcH, dstW, dstH) ==
  ArrayOf([k \in 1..(dstW * dstH) |->
     LET x == (k - 1) % dstW
         y == (k - 1) \div dstW
         srcY == NearestSource(y, srcH, dstH)
         srcX == NearestSource(x, srcW, dstW)
     IN At(data, srcY * srcW + srcX)])

\* mask[i] = data[i] >= threshold ? 1 : 0
createBinaryMask(data, thr) ==
  ArrayOf([i \in 1..Len(data) |-> IF data[i] >= thr THEN 1 ELSE 0])

\* operate(source, target, operation): a 3 x 3 window whose taps outside the
\* raster are skipped; dilate yields 1 iff a tap is set, erode 0 iff a tap is
\* unset.
Operate(source, width, height, operation) ==
  ArrayOf([k \in 1..(width * height) |->
     LET taps == Window(PixelX(k, width), PixelY(k, width), width, height, 1)
         set == {t \in taps : At(source, t[2] * width + t[1]) # 0}
     IN IF operation = "dilate"
        THEN (IF set # {} THEN 1 ELSE 0)
        ELSE (IF set # taps THEN 0 ELSE 1)])

\* applyMorphology: operate(mask, temp, "dilate"); operate(temp, result,
\* "erode").
applyMorphology(mask, width, height) ==
  Operate(Operate(mask, width, height, "dilate"), width, height, "erode")

-----------------------------------------------------------------------------
(* objectDetection.ts: floodFillComponents.  visited is a set of indices;  *)
(* a component lists its indices in the order they are popped.             *)

\* push(index)
FloodPush(mask, index, st) ==
  IF index < 0 \/ index >= Len(mask) THEN st
  ELSE IF At(mask, index) = 0 \/ index \in st.visited THEN st
  ELSE [visited |-> st.visited \cup {index}, stack |-> Append(st.stack, index)]

\* The eight indices pushed for the popped index, in the order of the code.
\* x and y of the popped index are computed but take no part in them.
FloodNeighbours(current, width) ==
  <<current - 1, current + 1, current - width, current + width,
    current - width - 1, current - width + 1,
    current + width - 1, current + width + 1>>

\* The calls of push for idxs, one after the other: the call for idxs[k]
\* pushes unless an earlier call has marked the same index.
FloodPushes(mask, idxs, st) ==
  {k \in 1..Len(idxs) :
     /\ FloodPush(mask, idxs[k], st) # st
     /\ \A j \in 1..(k - 1) : idxs[j] # idxs[k]}

FloodPushAll(mask, idxs, st, pushes) ==
  [visited |-> st.visited \cup {idxs[k] : k \in pushes},
   stack |-> st.stack
               \o ArrayOf([i \in 1..Cardinality(pushes) |->
                             idxs[CHOOSE k \in pushes :
                                    Cardinality({j \in pushes : j < k}) = i - 1]])]

\* The state after one iteration of the while loop: visited and stack after
\* the eight calls of push, and the component with the popped index.
FloodPopped(pushed, component) ==
  [visited |-> pushed.visited, stack |-> pushed.stack, component |-> component]

\* One iteration of while (stack.length); no change once the stack is empty.
FloodStep(mask, width, st) ==
  IF st.stack = <<>> THEN st
  ELSE FloodPopped(
         FloodPushAll(mask, FloodNeighbours(st.stack[Len(st.stack)], width),
                      [visited |-> st.visited,
                       stack |-> SubSeq(st.stack, 1, Len(st.stack) - 1)],
                      FloodPushes(mask,
                                  FloodNeighbours(st.stack[Len(st.stack)], width),
                                  [visited |-> st.visited,
                                   stack |-> SubSeq(st.stack, 1, Len(st.stack) - 1)])),
         Append(st.component, st.stack[Len(st.stack)]))

\* n iterations of the loop, as the first half of them followed by the rest.
RECURSIVE FloodSteps(_, _, _, _)
FloodSteps(mask, width, st, n) ==
  IF n = 0 \/ st.stack = <<>> THEN st
  ELSE IF n = 1 THEN FloodStep(mask, width, st)
  ELSE FloodSteps(mask, width, FloodSteps(mask, width, st, n \div 2),
                  n - (n \div 2))

FloodDone(st) == [visited |-> st.visited, component |-> st.component]

\* while (stack.length): every iteration pops a set pixel that was never
\* popped before, so the loop is through after at most as many iterations
\* as the mask has set pixels.
FloodFill(mask, width, st, component) ==
  FloodDone(FloodSteps(mask, width,
                       [visited |-> st.visited, stack |-> st.stack,
                        component |-> component],
                       Popcount(mask)))

\* for (let idx = 0; idx < mask.length; idx += 1)
\* The indices from idx on that the loop does not skip.
FloodSeeds(mask, idx, visited) ==
  {i \in idx..(Len(mask) - 1) : At(mask, i) # 0 /\ i \notin visited}

FirstSeed(seeds) == CHOOSE i \in seeds : \A j \in seeds : i <= j

\* The iteration of the loop at the set pixel idx that is not visited: the
\* component grown from idx is pushed, and the loop goes on at idx + 1.
FloodGrow(mask, width, idx, f, components) ==
  [idx |-> idx + 1, visited |-> f.visited,
   components |-> Append(components, f.component)]

\* The loop from sc.idx up to and including the next component; no change
\* when the loop skips every index that is left.
FloodFrom(mask, width, seeds, sc) ==
  IF seeds = {} THEN sc
  ELSE FloodGrow(mask, width, FirstSeed(seeds),
                 FloodFill(mask, width,
                           [visited |-> sc.visited \cup {FirstSeed(seeds)},
                            stack |-> <<FirstSeed(seeds)>>],
                           <<>>),
                 sc.components)

\* The loop through its next n components, as the first half of them
\* followed by the rest.
RECURSIVE FloodScan(_, _, _, _)
FloodScan(mask, width, sc, n) ==
  IF n = 0 \/ FloodSeeds(mask, sc.idx, sc.visited) = {} THEN sc
  ELSE IF n = 1
       THEN FloodFrom(mask, width, FloodSeeds(mask, sc.idx, sc.visited), sc)
       ELSE FloodScan(mask, width, FloodScan(mask, width, sc, n \div 2),
                      n - (n \div 2))

\* Every component holds a set pixel of its own: the loop is through after
\* at most as many components as the mask has set pixels.
floodFillComponents(mask, width, height) ==
  FloodScan(mask, width, [idx |-> 0, visited |-> {}, components |-> <<>>],
            Popcount(mask)).components

-----------------------------------------------------------------------------
(* objectDetection.ts: zhangSuenThin and skeletonLength.                   *)

\* neighborCoords, as <<dx, dy>>.
NeighborCoords ==
  << <<-1, -1>>, <<0, -1>>, <<1, -1>>, <<1, 0>>,
     <<1, 1>>, <<0, 1>>, <<-1, 1>>, <<-1, 0>> >>

\* Whether the pass puts the interior pixel (x, y) on its removal list.  Both
\* passes run the same two tests on p2 and p4.
ThinRemoves(img, width, x, y, pass) ==
  LET vals == [k \in 1..8 |->
                 IF At(img, (y + NeighborCoords[k][2]) * width
                              + x + NeighborCoords[k][1]) # 0
                 THEN 1 ELSE 0]
      neighbors == Cardinality({k \in 1..8 : vals[k] = 1})
      transitions == Cardinality({k \in 0..7 :
                                    vals[k + 1] = 0 /\ vals[((k + 1) % 8) + 1] = 1})
      p2 == vals[2] = 1 /\ vals[4] = 1 /\ vals[6] = 1
      p4 == vals[4] = 1 /\ vals[6] = 1 /\ vals[8] = 1
  IN /\ At(img, y * width + x) # 0
     /\ neighbors >= 2
     /\ neighbors <= 6
     /\ transitions = 1
     /\ IF pass = 0 THEN ~p2 /\ ~p4 ELSE ~p2 /\ ~p4

\* One pass: the removal list is gathered over the interior pixels, then
\* applied.
ThinPass(img, width, height, pass) ==
  LET toRemove == {y * width + x : x \in 1..(width - 2), y \in 1..(height - 2)}
                    \cap {i \in 0..(Len(img) - 1) :
                            /\ i % width \in 1..(width - 2)
                            /\ i \div width \in 1..(height - 2)
                            /\ ThinRemoves(img, width, i % width, i \div width, pass)}
  IN [img |-> ArrayOf([k \in 1..Len(img) |->
                         IF (k - 1) \in toRemove THEN 0 ELSE img[k]]),
      changing |-> toRemove # {}]

\* while (changing): pass 0, then pass 1 on its result.
RECURSIVE ThinLoop(_, _, _)
ThinLoop(img, width, height) ==
  LET first == ThinPass(img, width, height, 0)
      second == ThinPass(first.img, width, height, 1)
  IN IF first.changing \/ second.changing
     THEN ThinLoop(second.img, width, height)
     ELSE second.img

zhangSuenThin(mask, width, height) == ThinLoop(mask, width, height)

\* skeletonLength(component, width, mask): the entries of component at which
\* mask holds a set pixel; an index past the end of mask reads undefined.
skeletonLength(component, width, mask) ==
  Cardinality({k \in 1..Len(component) :
                 /\ component[k] >= 0
                 /\ component[k] < Len(mask)
                 /\ At(mask, component[k]) # 0})

-----------------------------------------------------------------------------
(* Exact quotients <<n, d>> in lowest terms with d > 0, for the scores and *)
(* confidences of objectDetection.ts.                                      *)

RECURSIVE GCD(_, _)
GCD(a, b) == IF b = 0 THEN a ELSE GCD(b, a % b)

Q(n, d) ==
  LET g == GCD(Abs(n), d)
  IN <<n \div g, d \div g>>

QAdd(p, q) ==
  LET g == GCD(p[2], q[2])
      l == (p[2] \div g) * q[2]
  IN Q(p[1] * (l \div p[2]) + q[1] * (l \div q[2]), l)

QSub(p, q) == QAdd(p, <<-q[1], q[2]>>)

QMul(p, q) ==
  LET g1 == GCD(Abs(p[1]), q[2])
      g2 == GCD(Abs(q[1]), p[2])
  IN IF p[1] = 0 \/ q[1] = 0 THEN <<0, 1>>
     ELSE <<(p[1] \div g1) * (q[1] \div g2), (p[2] \div g2) * (q[2] \div g1)>>

\* p / q for q # 0
QDiv(p, q) ==
  QMul(p, IF q[1] > 0 THEN <<q[2], q[1]>> ELSE <<-q[2], -q[1]>>)

QAbs(p) == <<Abs(p[1]), p[2]>>

\* p < q, on the common denominator of QAdd.
QLess(p, q) == p[1] * (q[2] \div GCD(p[2], q[2])) < q[1] * (p[2] \div GCD(p[2], q[2]))

QMax(p, q) == IF QLess(p, q) THEN q ELSE p

QMin(p, q) == IF QLess(q, p) THEN q ELSE p

\* clamp(value, min = 0, max = 1)
clamp(value) ==
  IF value[1] <= 0 THEN <<0, 1>>
  ELSE IF value[1] >= value[2] THEN <<1, 1>>
  ELSE value

-----------------------------------------------------------------------------
(* objectDetection.ts: classifyUrbanFeature and buildDetectionBoxes.       *)

CATEGORY_LABELS ==
  [c \in {"building", "border-wall", "bridge", "river", "urban-feature"} |->
     CASE c = "building" -> "Building"
       [] c = "border-wall" -> "Border Wall"
       [] c = "bridge" -> "Bridge"
       [] c = "river" -> "River"
       [] c = "urban-feature" -> "Urban Feature"]

\* The candidates in the order they are pushed.  Each is gated by an integer
\* test and by a score test.
Candidates(metrics) ==
  LET areaPixels == metrics.areaPixels
      fillRatio == metrics.fillRatio
      aspectRatio == metrics.aspectRatio
      majorAxis == metrics.majorAxis
      minorAxis == metrics.minorAxis
      buildingSize == clamp(Q(areaPixels - 1200, 7000))
      buildingDensity == clamp(QDiv(QSub(fillRatio, <<11, 50>>), <<2, 5>>))
      buildingAspect ==
        clamp(QSub(<<1, 1>>, QDiv(QAbs(QSub(aspectRatio, <<8, 5>>)), <<3, 1>>)))
      buildingScore ==
        clamp(QAdd(QAdd(QMul(buildingSize, <<2, 5>>), QMul(buildingDensity, <<2, 5>>)),
                   QMul(buildingAspect, <<1, 5>>)))
      bridgeElongation == clamp(QDiv(QSub(aspectRatio, <<7, 2>>), <<13, 2>>))
      bridgeSpan == clamp(Q(majorAxis - 40, 140))
      bridgeWidth == clamp(QSub(<<1, 1>>, Q(Abs(minorAxis - 18), 28)))
      bridgeDensity == clamp(QDiv(QSub(fillRatio, <<1, 5>>), <<9, 20>>))
      bridgeScore ==
        clamp(QAdd(QAdd(QMul(bridgeElongation, <<7, 20>>), QMul(bridgeSpan, <<1, 4>>)),
                   QAdd(QMul(bridgeDensity, <<1, 4>>), QMul(bridgeWidth, <<3, 20>>))))
      wallElongation == clamp(QDiv(QSub(aspectRatio, <<6, 1>>), <<8, 1>>))
      wallSlenderness == clamp(QSub(<<1, 1>>, Q(minorAxis - 3, 22)))
      wallDiffusion == clamp(QDiv(QSub(<<7, 20>>, fillRatio), <<7, 20>>))
      wallScore ==
        clamp(QAdd(QAdd(QMul(wallElongation, <<9, 20>>), QMul(wallSlenderness, <<7, 20>>)),
                   QMul(wallDiffusion, <<1, 5>>)))
      riverArea == clamp(Q(areaPixels, 20000))
      riverDiffuse == clamp(QDiv(QSub(<<3, 10>>, fillRatio), <<3, 10>>))
      riverElongation == clamp(QDiv(QSub(aspectRatio, <<2, 1>>), <<8, 1>>))
      riverWidth == clamp(Q(minorAxis - 6, 40))
      riverScore ==
        clamp(QAdd(QAdd(QMul(riverArea, <<7, 20>>), QMul(riverDiffuse, <<7, 20>>)),
                   QAdd(QMul(riverElongation, <<1, 5>>), QMul(riverWidth, <<1, 10>>))))
      Pushed(building, bridge, wall, river) ==
        (IF areaPixels >= 1000 /\ QLess(<<1, 4>>, building)
         THEN << [categoryId |-> "building",
                  score |-> QAdd(<<11, 20>>, QMul(<<9, 20>>, building)),
                  notes |-> "Dense rectangular scatter consistent with building footprint"] >>
         ELSE <<>>)
        \o
        (IF majorAxis >= 40 /\ minorAxis <= 80 /\ QLess(<<1, 4>>, bridge)
         THEN << [categoryId |-> "bridge",
                  score |-> QAdd(<<1, 2>>, QMul(<<1, 2>>, bridge)),
                  notes |-> "Linear span with strong return suggests bridge or elevated crossing"] >>
         ELSE <<>>)
        \o
        (IF majorAxis >= 35 /\ QLess(<<1, 5>>, wall)
         THEN << [categoryId |-> "border-wall",
                  score |-> QAdd(<<1, 2>>, QMul(<<1, 2>>, wall)),
                  notes |-> "Long, narrow scatter consistent with defensive wall or perimeter"] >>
         ELSE <<>>)
        \o
        (IF areaPixels >= 900 /\ QLess(<<1, 5>>, river)
         THEN << [categoryId |-> "river",
                  score |-> QAdd(<<1, 2>>, QMul(<<1, 2>>, river)),
                  notes |-> "Broad, diffuse return likely from river or drainage channel"] >>
         ELSE <<>>)
  IN Pushed(buildingScore, bridgeScore, wallScore, riverScore)

\* candidates.sort((a, b) => b.score - a.score)[0]: the first pushed of the
\* candidates with the highest score (the sort is stable).
BestCandidate(candidates) ==
  candidates[CHOOSE k \in 1..Len(candidates) :
               /\ \A j \in 1..Len(candidates) :
                    ~QLess(candidates[k].score, candidates[j].score)
               /\ \A j \in 1..(k - 1) :
                    QLess(candidates[j].score, candidates[k].score)]

classifyUrbanFeature(metrics) ==
  LET fallbackScore ==
        clamp(QAdd(QMul(clamp(Q(metrics.areaPixels, 6000)), <<1, 2>>),
                   QMul(clamp(QDiv(metrics.fillRatio, <<9, 20>>)), <<1, 2>>)))
      Chosen(best) ==
        [categoryId |-> best.categoryId, notes |-> best.notes,
         shapeScore |-> clamp(best.score)]
      Classified(candidates) ==
        IF candidates # <<>>
        THEN Chosen(BestCandidate(candidates))
        ELSE [categoryId |-> "urban-feature",
              notes |-> "Irregular scatter requires analyst confirmation",
              shapeScore |-> QAdd(<<7, 20>>, QMul(<<2, 5>>, fallbackScore))]
  IN Classified(Candidates(metrics))

\* Whether options.maxDetections is truthy.
HasMaxDetections(options) ==
  options.maxDetections # Undefined /\ options.maxDetections[1] # 0

\* The bounding box of a component: minX and minY start at width and height,
\* maxX and maxY at 0.
ComponentBBox(pixels, width, height) ==
  LET xs == {pixels[k] % width : k \in 1..Len(pixels)}
      ys == {pixels[k] \div width : k \in 1..Len(pixels)}
      minX == CHOOSE v \in xs \cup {width} : \A u \in xs \cup {width} : v <= u
      minY == CHOOSE v \in ys \cup {height} : \A u \in ys \cup {height} : v <= u
      maxX == CHOOSE v \in xs \cup {0} : \A u \in xs \cup {0} : v >= u
      maxY == CHOOSE v \in ys \cup {0} : \A u \in ys \cup {0} : v >= u
  IN [x |-> minX, y |-> minY,
      width |-> maxX - minX + 1, height |-> maxY - minY + 1]

SkeletonOverrideAboveTwenty(classification, linearity, major, aspectRatio) ==
  LET forced == major > 20 /\ QLess(<<1, 4>>, linearity)
      toBridge == QLess(<<3, 1>>, aspectRatio) \/ major > 50
  IN [categoryId |-> IF ~forced THEN classification.categoryId
                     ELSE IF toBridge THEN "bridge" ELSE "border-wall",
      adjustedShapeScore |-> classification.shapeScore,
      notes |-> classification.notes]

\* The skeleton rule of buildDetectionBoxes: a component of major axis 20 or
\* more whose linearity exceeds 0.25 is forced to "bridge" or "border-wall"
\* and its shape score is raised.
SkeletonOverride(classification, linearity, major, aspectRatio) ==
  LET forced == major >= 20 /\ QLess(<<1, 4>>, linearity)
      toBridge == QLess(<<3, 1>>, aspectRatio) \/ major > 50
  IN [categoryId |-> IF ~forced THEN classification.categoryId
                     ELSE IF toBridge THEN "bridge" ELSE "border-wall",
      adjustedShapeScore |->
        IF ~forced THEN classification.shapeScore
        ELSE IF toBridge
             THEN clamp(QMax(classification.shapeScore,
                             QAdd(<<3, 5>>, QMul(linearity, <<2, 5>>))))
             ELSE clamp(QMax(classification.shapeScore,
                             QAdd(<<11, 20>>, QMul(linearity, <<7, 20>>)))),
      notes |-> classification.notes]

\* The linearity index of a component: the skeleton pixels lying on the
\* component, over the component's pixel count.
\* compMask: the part of the mask under the bounding box.
ComponentMask(mask, width, bbox) ==
  ArrayOf([k \in 1..(bbox.width * bbox.height) |->
     LET px == (k - 1) % bbox.width
         py == (k - 1) \div bbox.width
     IN IF At(mask, (bbox.y + py) * width + bbox.x + px) # 0 THEN 1 ELSE 0])

SkeletonLinearity(pixels, mask, width, bbox) ==
  LET skel == zhangSuenThin(ComponentMask(mask, width, bbox),
                            bbox.width, bbox.height)
      sklen == skeletonLength([k \in 1..Len(pixels) |->
                                 pixels[k] - bbox.y * width - bbox.x],
                              bbox.width, skel)
  IN clamp(Q(sklen, Max(1, Len(pixels))))

\* The bounding box and the linearity buildDetectionBoxes computes for each
\* component of a mask.
ComponentLinearity(pixels, mask, width, bbox) ==
  [pixels |-> pixels, bbox |-> bbox,
   linearity |-> SkeletonLinearity(pixels, mask, width, bbox)]

ComponentLinearities(components, mask, width, height) ==
  [c \in 1..Len(components) |->
     ComponentLinearity(components[c], mask, width,
                        ComponentBBox(components[c], width, height))]

\* The metrics handed to classifyUrbanFeature.
ComponentMetrics(pixels, bbox) ==
  LET area == bbox.width * bbox.height
      major == Max(bbox.width, bbox.height)
      minor == Max(1, Min(bbox.width, bbox.height))
  IN [areaPixels |-> Len(pixels), boundingArea |-> area,
      fillRatio |-> Q(Len(pixels), Max(1, area)),
      aspectRatio |-> Q(major, minor),
      majorAxis |-> major, minorAxis |-> minor]

\* boxes.push({...}) for a component with the given bounding box and the
\* category, shape score and notes settled for it.
PushedBox(pixels, data, width, thresholdValue, count, bbox, settled) ==
  LET sum == SeqSum([k \in 1..Len(pixels) |-> At(data, pixels[k])])
      \* (sum / pixels.length - thresholdValue) / max(1, 255 - thresholdValue)
      baseConfidence ==
        clamp(QDiv(QSub(Q(sum, Len(pixels)), <<thresholdValue, 1>>),
                   <<Max(1, 255 - thresholdValue), 1>>))
  IN [id |-> <<"det", count + 1>>,
      label |-> CATEGORY_LABELS[settled.categoryId],
      categoryId |-> settled.categoryId,
      confidence |-> clamp(QAdd(QMul(baseConfidence, <<1, 2>>),
                                QMul(settled.adjustedShapeScore, <<1, 2>>))),
      bbox |-> bbox,
      previewBox |-> [x |-> <<0, 1>>, y |-> <<0, 1>>,
                      width |-> <<0, 1>>, height |-> <<0, 1>>],
      areaPixels |-> Len(pixels),
      centroid |->
        [x |-> Q(SeqSum([k \in 1..Len(pixels) |-> pixels[k] % width]), Len(pixels)),
         y |-> Q(SeqSum([k \in 1..Len(pixels) |-> pixels[k] \div width]), Len(pixels))],
      centroidPreview |-> [x |-> <<0, 1>>, y |-> <<0, 1>>],
      footprint |-> Null,
      notes |-> settled.notes]

\* The box of a component with the given bounding box and metrics.
ClassifiedBox(pixels, mask, data, width, thresholdValue, count, bbox, metrics) ==
  PushedBox(pixels, data, width, thresholdValue, count, bbox,
            SkeletonOverride(classifyUrbanFeature(metrics),
                             SkeletonLinearity(pixels, mask, width, bbox),
                             metrics.majorAxis, metrics.aspectRatio))

\* The box on a given bounding box.
BoundedBox(pixels, mask, data, width, thresholdValue, count, bbox) ==
  ClassifiedBox(pixels, mask, data, width, thresholdValue, count, bbox,
                ComponentMetrics(pixels, bbox))

\* The box buildDetectionBoxes pushes for one component that passes both
\* area tests; count is boxes.length before the push.
DetectionBoxOf(pixels, mask, data, width, height, thresholdValue, count) ==
  BoundedBox(pixels, mask, data, width, thresholdValue, count,
             ComponentBBox(pixels, width, height))

\* The components the loop does not skip by one of its two continue tests.
BuildKept(components, width, height, options) ==
  {index \in 1..Len(components) :
     /\ Len(components[index]) >= options.minAreaPixels
     /\ ComponentBBox(components[index], width, height).width
          * ComponentBBox(components[index], width, height).height
          >= options.minAreaPixels}

\* The number of boxes after which the loop ends: the break follows a
\* push, once boxes.length has reached a truthy maxDetections.
BuildLimit(options, kept) ==
  IF HasMaxDetections(options)
  THEN Min(Cardinality(kept), Max(1, options.maxDetections[1]))
  ELSE Cardinality(kept)

\* for (let index = 0; index < components.length; index += 1): box i comes
\* from the i-th component that is not skipped, pushed when boxes.length
\* is i - 1.
BuildLoop(components, mask, data, width, height, thresholdValue, kept, limit) ==
  ArrayOf([i \in 1..limit |->
     DetectionBoxOf(components[CHOOSE k \in kept :
                                 Cardinality({j \in kept : j < k}) = i - 1],
                    mask, data, width, height, thresholdValue, i - 1)])

buildDetectionBoxes(components, mask, data, width, height, options) ==
  BuildLoop(components, mask, data, width, height,
            detectionPercentile(data, <<options.thresholdPercentile, 1>>),
            BuildKept(components, width, height, options),
            BuildLimit(options, BuildKept(components, width, height, options)))

-----------------------------------------------------------------------------
(* objectDetection.ts: adaptiveBinaryMask, downscale and detectObjects.    *)

\* computeIntegralImage: entry y * (width + 1) + x holds the sum of the
\* values left of column x and above row y.  The entries are Uint32; a sum
\* of fewer than 2^32 / 255 byte values does not wrap.
computeIntegralImage(values, width, height) ==
  ArrayOf([k \in 1..((width + 1) * (height + 1)) |->
     LET x == (k - 1) % (width + 1)
         y == (k - 1) \div (width + 1)
     IN SeqSum([i \in 1..Len(values) |->
                  IF PixelX(i, width) < x /\ PixelY(i, width) < y
                  THEN values[i] ELSE 0])])

\* localMean, as a quotient that is not reduced: <<D - B - C + A, count>>.
localMean(ii, x0, y0, x1, y1, widthPlus1) ==
  LET A == At(ii, y0 * widthPlus1 + x0)
      B == At(ii, y0 * widthPlus1 + x1)
      C == At(ii, y1 * widthPlus1 + x0)
      D == At(ii, y1 * widthPlus1 + x1)
  IN <<D - B - C + A, (x1 - x0) * (y1 - y0)>>

\* mask = values >= Math.max(0, mean - offset) ? 1 : 0
adaptiveBinaryMask(values, width, height, window, offset) ==
  LET ii == computeIntegralImage(values, width, height)
      wp1 == width + 1
  IN ArrayOf([k \in 1..Len(values) |->
        LET x == PixelX(k, width)
            y == PixelY(k, width)
            y0 == Max(0, y - (window \div 2))
            y1 == Min(height, y0 + window)
            x0 == Max(0, x - (window \div 2))
            x1 == Min(width, x0 + window)
            mean == localMean(ii, x0, y0, x1, y1, wp1)
        IN IF values[k] * mean[2] >= Max(0, mean[1] - offset * mean[2])
           THEN 1 ELSE 0])

\* downscale(data, width, height, maxEdge)
downscale(data, width, height, maxEdge) ==
  IF Max(width, height) <= maxEdge
  THEN [data |-> data, width |-> width, height |-> height]
  ELSE LET targetWidth == Max(1, Round(width * maxEdge, Max(width, height)))
           targetHeight == Max(1, Round(height * maxEdge, Max(width, height)))
       IN [data |-> resampleNearest(data, width, height, targetWidth, targetHeight),
           width |-> targetWidth, height |-> targetHeight]

DEFAULT_OPTIONS ==
  [thresholdPercentile |-> 95, minAreaPixels |-> 40, maxDetections |-> Some(200)]

DEFAULT_PREVIEW_EDGE == 1200

\* The scale factors, as quotients.
ScaleFactors == << <<1, 1>>, <<1, 2>>, <<1, 4>> >>

\* The sizes and the mask of one pass of the multi-scale loop.
ScalePass(normalized, width, height, options, s) ==
  LET targetW == Max(1, Round(width * s[1], s[2]))
      targetH == Max(1, Round(height * s[1], s[2]))
      scaled == IF s = <<1, 1>> THEN normalized
                ELSE resampleNearest(normalized, width, height, targetW, targetH)
      scaledThreshold == detectionPercentile(scaled, <<options.thresholdPercentile, 1>>)
      mask == applyMorphology(createBinaryMask(scaled, scaledThreshold),
                              targetW, targetH)
  IN [targetW |-> targetW, targetH |-> targetH, scaled |-> scaled, mask |-> mask]

\* The map back to the original image: every coordinate is divided by
\* factor = targetW / width, the one of the columns.
MapToOriginal(b, width, targetW) ==
  [b EXCEPT !.bbox = [x |-> Round(b.bbox.x * width, targetW),
                      y |-> Round(b.bbox.y * width, targetW),
                      width |-> Max(1, Round(b.bbox.width * width, targetW)),
                      height |-> Max(1, Round(b.bbox.height * width, targetW))],
            !.centroid = [x |-> QMul(b.centroid.x, Q(width, targetW)),
                          y |-> QMul(b.centroid.y, Q(width, targetW))]]

MapAllToOriginal(found, width, targetW) ==
  [k \in 1..Len(found) |-> MapToOriginal(found[k], width, targetW)]

\* The boxes one pass appends to allBoxes.
BoxesAtScale(pass, width, options) ==
  MapAllToOriginal(buildDetectionBoxes(
                     floodFillComponents(pass.mask, pass.targetW, pass.targetH),
                     pass.mask, pass.scaled, pass.targetW, pass.targetH, options),
                   width, pass.targetW)

\* allBoxes after the passes in the given order.
RECURSIVE AllBoxes(_, _, _)
AllBoxes(passes, width, options) ==
  IF passes = <<>> THEN <<>>
  ELSE BoxesAtScale(passes[1], width, options)
         \o AllBoxes(Tail(passes), width, options)

\* The boxes under the ids buildDetectionBoxes gave them.
RenumberNot(bs, prefix) == bs

\* boxes.map((b, i) => ({ ...b, id: `<prefix>-${i + 1}` }))
Renumber(bs, prefix) ==
  [i \in 1..Len(bs) |-> [bs[i] EXCEPT !.id = <<prefix, i>>]]

\* nonMaximumSuppression reads confidences only to compare them: each box is
\* handed over with the rank of its confidence among those of the list.
ConfidenceRanks(bs) ==
  ArrayOf([i \in 1..Len(bs) |->
     [bbox |-> bs[i].bbox,
      confidence |-> Cardinality({k \in 1..Len(bs) :
                                    QLess(bs[k].confidence, bs[i].confidence)})]])

\* The list nonMaximumSuppression returns for the given boxes.
Suppressed(bs, thr) ==
  LET kept == nonMaximumSuppression(ConfidenceRanks(bs), thr).keep
  IN [k \in 1..Len(kept) |-> bs[kept[k]]]

\* A test that only counts the boxes.
FallbackNeededByCount(bs, height) == Len(bs) < 12

\* boxes.length < 12 || averageY < height * 0.2, with averageY the mean of
\* bbox.y + bbox.height / 2 (height when there is no box).
FallbackNeeded(bs, height) ==
  \/ Len(bs) < 12
  \/ 5 * SeqSum([k \in 1..Len(bs) |-> 2 * bs[k].bbox.y + bs[k].bbox.height])
       < 2 * Len(bs) * height

\* The two fallback masks and their boxes.
Fallback(normalized, width, height, options) ==
  LET altThreshold == Max(0, options.thresholdPercentile - 8)
      altValue == detectionPercentile(normalized, <<altThreshold, 1>>)
      altMask == applyMorphology(createBinaryMask(normalized, altValue), width, height)
      localMask == applyMorphology(adaptiveBinaryMask(normalized, width, height, 64, 12),
                                   width, height)
  IN [altMask |-> altMask,
      altBoxes |-> buildDetectionBoxes(floodFillComponents(altMask, width, height),
                                       altMask, normalized, width, height,
                                       [options EXCEPT !.thresholdPercentile = altThreshold]),
      localMask |-> localMask,
      localBoxes |-> buildDetectionBoxes(floodFillComponents(localMask, width, height),
                                         localMask, normalized, width, height, options)]

\* canvasFromBinary(mask, width, height, color).toDataURL('image/png'): the
\* image holds the colour at the set pixels and nothing elsewhere.
MaskUrl(mask, width, height, color) ==
  [width |-> width, height |-> height,
   pixels |-> ArrayOf([i \in 1..Len(mask) |-> IF mask[i] # 0 THEN color ELSE "clear"])]

\* The debug record built from the masks of the run.
DebugUrls(perScaleMasks, width, height, fallback) ==
  LET binaryMask == perScaleMasks[1]
      scaleUrl(k) ==
        IF ScaleFactors[k] = <<1, 1>>
        THEN MaskUrl(perScaleMasks[k], width, height, "grey200")
        ELSE LET s == ScaleFactors[k]
                 srcW == Max(1, Round(width * s[1], s[2]))
                 srcH == Max(1, Round(height * s[1], s[2]))
             IN MaskUrl(resampleNearest(perScaleMasks[k], srcW, srcH, width, height),
                        width, height, "blue")
      mergedMask ==
        ArrayOf([i \in 1..(width * height) |->
           IF \/ binaryMask[i] # 0
              \/ (fallback # Null /\ fallback.altMask[i] # 0)
              \/ (fallback # Null /\ fallback.localMask[i] # 0)
           THEN 1 ELSE 0])
  IN [primary |-> MaskUrl(binaryMask, width, height, "white"),
      scales |-> [k \in 1..Len(ScaleFactors) |-> scaleUrl(k)],
      alt |-> IF fallback # Null
              THEN MaskUrl(fallback.altMask, width, height, "orange") ELSE Null,
      local |-> IF fallback # Null
                THEN MaskUrl(fallback.localMask, width, height, "cyan") ELSE Null,
      merged |-> MaskUrl(mergedMask, width, height, "green")]

\* boxes.forEach(...): previewBox, centroidPreview and footprint of one box.
WithPreview(box, tiff, scaleX, scaleY) ==
  LET polygon == buildPolygon(box.bbox, tiff.bbox, tiff.width, tiff.height)
      properties == [id |-> box.id, categoryId |-> box.categoryId,
                     categoryLabel |-> box.label, label |-> box.label,
                     confidence |-> box.confidence, areaPixels |-> box.areaPixels,
                     area_m2 |-> IF tiff.pixelScale # Undefined
                                 THEN Some(box.areaPixels
                                             * Abs(tiff.pixelScale[1] * tiff.pixelScale[2]))
                                 ELSE Undefined]
  IN [box EXCEPT
        !.previewBox = [x |-> QMul(<<box.bbox.x, 1>>, scaleX),
                        y |-> QMul(<<box.bbox.y, 1>>, scaleY),
                        width |-> QMul(<<box.bbox.width, 1>>, scaleX),
                        height |-> QMul(<<box.bbox.height, 1>>, scaleY)],
        !.centroidPreview = [x |-> QMul(box.centroid.x, scaleX),
                             y |-> QMul(box.centroid.y, scaleY)],
        !.footprint = IF polygon = Null THEN Null
                      ELSE [type |-> polygon.type, geometry |-> polygon.geometry,
                            properties |-> properties]]

RECURSIVE QSum(_)
QSum(s) ==
  IF Len(s) <= 1 THEN (IF Len(s) = 0 THEN <<0, 1>> ELSE s[1])
  ELSE QAdd(QSum(SubSeq(s, 1, Len(s) \div 2)),
            QSum(SubSeq(s, (Len(s) \div 2) + 1, Len(s))))

\* The record detectObjects returns.
DetectionResult(tiff, options, thresholdValue, downscaled, bs) ==
  [thresholdValue |-> thresholdValue,
   width |-> tiff.width,
   height |-> tiff.height,
   previewWidth |-> downscaled.width,
   previewHeight |-> downscaled.height,
   basePreviewUrl |-> [width |-> downscaled.width,
                       height |-> downscaled.height,
                       pixels |-> downscaled.data],
   overlayUrl |-> [width |-> downscaled.width,
                   height |-> downscaled.height,
                   pixels |-> downscaled.data,
                   rects |-> [k \in 1..Len(bs) |->
                                [box |-> bs[k].previewBox,
                                 label |-> bs[k].label,
                                 confidence |-> bs[k].confidence,
                                 categoryId |-> bs[k].categoryId]]],
   boxes |-> bs,
   stats |-> [totalDetections |-> Len(bs),
              threshold |-> options.thresholdPercentile,
              minimumArea |-> options.minAreaPixels,
              averageConfidence |->
                IF bs # <<>>
                THEN QDiv(QSum([k \in 1..Len(bs) |-> bs[k].confidence]),
                          <<Len(bs), 1>>)
                ELSE <<0, 1>>],
   featureCollection |->
     [type |-> "FeatureCollection",
      features |-> SelectSeq([k \in 1..Len(bs) |-> bs[k].footprint],
                             LAMBDA f : f # Null)],
   bounds |-> tiff.bbox,
   pixelScale |-> tiff.pixelScale]

\* detectObjects from the preview on, for the boxes kept so far.
Previewed(tiff, options, normalized, downscaled, merged) ==
  DetectionResult(tiff, options,
                  detectionPercentile(normalized, <<options.thresholdPercentile, 1>>),
                  downscaled,
                  ArrayOf([k \in 1..Len(merged) |->
                             WithPreview(merged[k], tiff,
                                         Q(downscaled.width, tiff.width),
                                         Q(downscaled.height, tiff.height))]))

\* detectObjects once the fallback block is through: the second
\* suppression, the debug record, the preview and the result.  A canvas
\* without a 2D context makes the debug block store undefined and the
\* preview canvas throw.
AfterFallback(tiff, options, canvas, normalized, masks, multiScale, fallback) ==
  [lastDebug |-> IF canvas
                 THEN Some(DebugUrls(masks, tiff.width, tiff.height, fallback))
                 ELSE Undefined,
   result |->
     IF ~canvas THEN [error |-> "Unable to initialise canvas context"]
     ELSE Previewed(tiff, options, normalized,
                    downscale(normalized, tiff.width, tiff.height,
                              DEFAULT_PREVIEW_EDGE),
                    IF fallback = Null THEN multiScale
                    ELSE Suppressed(Renumber(multiScale \o fallback.altBoxes
                                               \o fallback.localBoxes, "m"),
                                    <<7, 20>>))]

\* detectObjects once the scale loop and the first suppression are through.
AfterScaleLoop(tiff, options, canvas, normalized, masks, multiScale) ==
  AfterFallback(tiff, options, canvas, normalized, masks, multiScale,
                IF FallbackNeeded(multiScale, tiff.height)
                THEN Fallback(normalized, tiff.width, tiff.height, options)
                ELSE Null)

\* detectObjects for a normalised raster and the passes of the scale loop.
Scaled(tiff, options, canvas, normalized, passes) ==
  AfterScaleLoop(tiff, options, canvas, normalized,
                 ArrayOf([k \in 1..Len(passes) |-> passes[k].mask]),
                 Suppressed(Renumber(AllBoxes(passes, tiff.width, options), "ms"),
                            <<7, 20>>))

\* detectObjects for a normalised raster.
Normalized(tiff, options, canvas, normalized) ==
  Scaled(tiff, options, canvas, normalized,
         ArrayOf([k \in 1..Len(ScaleFactors) |->
                    ScalePass(normalized, tiff.width, tiff.height, options,
                              ScaleFactors[k])]))

\* The synchronous part of detectObjects, from the decoded raster to the
\* returned record and the record stored in detectObjects.__lastDebug.
DetectRun(tiff, incomingOptions, canvas) ==
  Normalized(tiff, incomingOptions @@ DEFAULT_OPTIONS, canvas, normalize(tiff.data))

-----------------------------------------------------------------------------
(* Input domains of the nonMaximumSuppression specification.               *)

MaxBoxes == 3

NmsBBoxes ==
  {[x |-> x, y |-> 0, width |-> w, height |-> 1] : x \in 0..2, w \in 1..2}
    \cup {[x |-> 1, y |-> 0, width |-> 0, height |-> 1]}

NmsConfidences == {1, 2}

NmsBoxes == [bbox : NmsBBoxes, confidence : NmsConfidences]

NmsThresholds == {Undefined, <<7, 20>>, <<1, 2>>, <<1, 1>>}

InitNms ==
  /\ pc = "start"
  /\ StoreIdle
  /\ \E n \in 0..MaxBoxes : boxes \in [1..n -> NmsBoxes]
  /\ threshold \in NmsThresholds
  /\ keep = <<>>
  /\ CallIdle
  /\ DetectIdle


CallNms ==
  /\ pc = "start"
  /\ LET r == nonMaximumSuppression(boxes, threshold)
     IN /\ boxes' = r.boxes
        /\ keep' = r.keep
  /\ pc' = "done"
  /\ UNCHANGED threshold
  /\ Others("nms")

NextNms == CallNms

SpecNms == InitNms /\ [][NextNms]_vars

-----------------------------------------------------------------------------
(* Calls of analysis.ts: Init draws the function and its arguments, the    *)
(* action is the call.                                                     *)

MaxW == 3

MaxH == 2

RasterDims == (1..MaxW) \X (1..MaxH)

\* The rasters of the given size with samples from the given set.
Rasters(w, h, samples) == [1..(w * h) -> samples]

NoPostProcess ==
  [openingRadius |-> 0, closingRadius |-> 0, fillHoles |-> FALSE, minBlobArea |-> 0]

DefaultOptions ==
  [algorithm |-> "otsu", kmeansClusters |-> Undefined, kmeansIterations |-> Undefined,
   contamination |-> Undefined, otsuManualThreshold |-> Undefined,
   speckleFilter |-> "undefined", speckleSize |-> Undefined,
   postProcess |-> NoPostProcess]

\* One or two settings of each algorithm's own knobs.
AlgorithmOptions ==
  {[DefaultOptions EXCEPT !.algorithm = "otsu"],
   [DefaultOptions EXCEPT !.algorithm = "otsu", !.otsuManualThreshold = <<1, 2>>],
   [DefaultOptions EXCEPT !.algorithm = "adaptive"],
   [DefaultOptions EXCEPT !.algorithm = "kmeans"],
   [DefaultOptions EXCEPT !.algorithm = "kmeans", !.kmeansClusters = Some(3),
                          !.kmeansIterations = Some(2)],
   [DefaultOptions EXCEPT !.algorithm = "isolation_forest"],
   [DefaultOptions EXCEPT !.algorithm = "isolation_forest",
                          !.contamination = Some(2500)],
   [DefaultOptions EXCEPT !.algorithm = "lof", !.speckleFilter = "none"],
   [DefaultOptions EXCEPT !.algorithm = "pca", !.speckleFilter = "lee",
                          !.speckleSize = Some(1)]}

PostProcessChoices ==
  {NoPostProcess,
   [NoPostProcess EXCEPT !.openingRadius = 1],
   [NoPostProcess EXCEPT !.closingRadius = 1],
   [NoPostProcess EXCEPT !.fillHoles = TRUE],
   [NoPostProcess EXCEPT !.minBlobArea = 3],
   [openingRadius |-> 1, closingRadius |-> 1, fillHoles |-> TRUE, minBlobArea |-> 2]}

\* A decoded raster (the result of readSingleBand).
Tiff(w, h, data, scale) ==
  [width |-> w, height |-> h, data |-> data, pixelScale |-> scale]

\* The option sets of the analyzeChange runs: every algorithm setting without
\* post-processing, and every post-processing choice under otsu and kmeans.
ChangeOptions ==
  AlgorithmOptions
    \cup {[DefaultOptions EXCEPT !.postProcess = pp] : pp \in PostProcessChoices}
    \cup {[DefaultOptions EXCEPT !.algorithm = "kmeans", !.postProcess = pp] :
            pp \in PostProcessChoices}

\* analyzeChange on every after raster of two sample values up to MaxW x MaxH,
\* against a flat before raster: of the same size, or (for the runs without
\* post-processing) of a single pixel, which is resampled.  The speckle
\* filter is drawn among the settings that pass the samples through.
InitChange ==
  /\ pc = "start"
  /\ StoreIdle
  /\ fn = "analyzeChange"
  /\ \E d \in RasterDims, o \in ChangeOptions :
       \E after \in Rasters(d[1], d[2], {10, 250}) :
         args = [before |-> IF o.postProcess = NoPostProcess
                            THEN Tiff(1, 1, <<10>>, Undefined)
                            ELSE Tiff(d[1], d[2], [i \in 1..(d[1] * d[2]) |-> 10],
                                      <<10, 10>>),
                 after |-> Tiff(d[1], d[2], after, Undefined),
                 options |-> o]
  /\ ret = "none"
  /\ NmsIdle
  /\ DetectIdle

CallAnalyzeChange ==
  /\ pc = "start"
  /\ fn = "analyzeChange"
  /\ ret' = analyzeChange(args.before, args.after, args.options)
  /\ pc' = "done"
  /\ UNCHANGED <<fn, args>>
  /\ Others("call")

NextChange == CallAnalyzeChange

SpecChange == InitChange /\ [][NextChange]_vars

\* The 4 x 4 scenario: before all 10, after 10 except a non-empty proper
\* subset of pixels at 250; otsu, no manual threshold, no speckle filter, no
\* post-processing.
ScenarioOptions == [DefaultOptions EXCEPT !.speckleFilter = "none"]

InitScenario ==
  /\ pc = "start"
  /\ StoreIdle
  /\ fn = "analyzeChange"
  /\ \E changed \in (SUBSET (1..16)) \ {{}, 1..16} :
       args = [before |-> Tiff(4, 4, [i \in 1..16 |-> 10], Undefined),
               after |-> Tiff(4, 4, [i \in 1..16 |->
                                       IF i \in changed THEN 250 ELSE 10], Undefined),
               options |-> ScenarioOptions]
  /\ ret = "none"
  /\ NmsIdle
  /\ DetectIdle

SpecScenario == InitScenario /\ [][NextChange]_vars

-----------------------------------------------------------------------------
(* postProcessMask with one morphological operation, applied to a mask and *)
(* then to its own result.                                                 *)

MaxRadius == 2

\* The raster sizes of the mask operations: every size up to MaxW x MaxH,
\* and two sizes with pixels that have a full 3 x 3 window.
MaskDims == RasterDims \cup {<<3, 3>>, <<4, 3>>}

Masks(w, h) == Rasters(w, h, {0, 1})

\* Opening alone or closing alone, with radius r.
MorphChoices ==
  {[NoPostProcess EXCEPT !.openingRadius = r] : r \in 1..MaxRadius}
    \cup {[NoPostProcess EXCEPT !.closingRadius = r] : r \in 1..MaxRadius}

InitMorph ==
  /\ pc = "start"
  /\ StoreIdle
  /\ fn = "postProcessMask"
  /\ \E d \in MaskDims, o \in MorphChoices :
       \E mask \in Masks(d[1], d[2]) :
         args = [mask |-> mask, width |-> d[1], height |-> d[2], options |-> o]
  /\ ret = "none"
  /\ NmsIdle
  /\ DetectIdle

CallPostProcessMask ==
  /\ pc = "start"
  /\ fn = "postProcessMask"
  /\ ret' = postProcessMask(args.mask, args.width, args.height, args.options)
  /\ pc' = "done"
  /\ UNCHANGED <<fn, args>>
  /\ Others("call")

\* The same call on the mask the first call returned.
CallPostProcessMaskAgain ==
  /\ pc = "done"
  /\ fn = "postProcessMask"
  /\ ret' = postProcessMask(ret, args.width, args.height, args.options)
  /\ pc' = "again"
  /\ UNCHANGED <<fn, args>>
  /\ Others("call")

NextMorph == CallPostProcessMask \/ CallPostProcessMaskAgain

SpecMorph == InitMorph /\ [][NextMorph]_vars

-----------------------------------------------------------------------------
(* otsuThreshold, kmeans1D and computeMask on short byte arrays.           *)

MaxSamples == 6

\* Byte values: both ends of the range, two adjacent values and a middle one.
OtsuSamples == {0, 100, 101, 255}

ByteArrays(samples) == UNION {[1..n -> samples] : n \in 1..MaxSamples}

InitOtsu ==
  /\ pc = "start"
  /\ StoreIdle
  /\ fn = "otsuThreshold"
  /\ \E values \in ByteArrays(OtsuSamples) : args = [values |-> values]
  /\ ret = "none"
  /\ NmsIdle
  /\ DetectIdle

CallOtsuThreshold ==
  /\ pc = "start"
  /\ fn = "otsuThreshold"
  /\ ret' = otsuThreshold(args.values)
  /\ pc' = "done"
  /\ UNCHANGED <<fn, args>>
  /\ Others("call")

NextOtsu == CallOtsuThreshold

SpecOtsu == InitOtsu /\ [][NextOtsu]_vars

MaxIterations == 3

KmeansSamples == {0, 50, 100}

\* kmeans options of computeMask: clusters and iterations given or left to
\* their defaults.
KmeansOptions ==
  {[DefaultOptions EXCEPT !.algorithm = "kmeans", !.kmeansClusters = c,
                          !.kmeansIterations = it] :
     c \in {Undefined, Some(1), Some(2), Some(3)},
     it \in {Undefined} \cup {Some(k) : k \in 0..MaxIterations}}

\* kmeans1D directly, or through computeMask on a raster of one row.
InitKmeans ==
  /\ pc = "start"
  /\ StoreIdle
  /\ \E values \in ByteArrays(KmeansSamples) :
       \/ /\ fn = "kmeans1D"
          /\ \E c \in 2..3, it \in 1..MaxIterations :
               args = [values |-> values, clusters |-> c, iterations |-> it]
       \/ /\ fn = "computeMask"
          /\ \E o \in KmeansOptions :
               args = [diff |-> values, width |-> Len(values), height |-> 1,
                       options |-> o]
  /\ ret = "none"
  /\ NmsIdle
  /\ DetectIdle

CallKmeans1D ==
  /\ pc = "start"
  /\ fn = "kmeans1D"
  /\ ret' = kmeans1D(args.values, args.clusters, args.iterations)
  /\ pc' = "done"
  /\ UNCHANGED <<fn, args>>
  /\ Others("call")

CallComputeMask ==
  /\ pc = "start"
  /\ fn = "computeMask"
  /\ ret' = computeMask(args.diff, args.width, args.height, args.options)
  /\ pc' = "done"
  /\ UNCHANGED <<fn, args>>
  /\ Others("call")

NextKmeans == CallKmeans1D \/ CallComputeMask

SpecKmeans == InitKmeans /\ [][NextKmeans]_vars

-----------------------------------------------------------------------------
(* removeSmallComponents on every mask of the small rasters and on a 5 x 5 *)
(* raster holding one 3 x 3 block.                                         *)

MinAreas == {0, 1, 2, 3, 5, 10}

\* The 5 x 5 mask whose set pixels are the 3 x 3 block with top-left corner
\* (bx, by).
BlockMask(bx, by) ==
  [i \in 1..25 |->
     IF /\ PixelX(i, 5) \in bx..(bx + 2)
        /\ PixelY(i, 5) \in by..(by + 2)
     THEN 1 ELSE 0]

InitRsc ==
  /\ pc = "start"
  /\ StoreIdle
  /\ fn = "removeSmallComponents"
  /\ \E minArea \in MinAreas :
       \/ \E d \in MaskDims :
            \E mask \in Masks(d[1], d[2]) :
              args = [mask |-> mask, width |-> d[1], height |-> d[2],
                      minArea |-> minArea]
       \/ \E bx \in 0..2, by \in 0..2 :
            args = [mask |-> BlockMask(bx, by), width |-> 5, height |-> 5,
                    minArea |-> minArea]
  /\ ret = "none"
  /\ NmsIdle
  /\ DetectIdle

CallRemoveSmallComponents ==
  /\ pc = "start"
  /\ fn = "removeSmallComponents"
  /\ ret' = removeSmallComponents(args.mask, args.width, args.height, args.minArea)
  /\ pc' = "done"
  /\ UNCHANGED <<fn, args>>
  /\ Others("call")

NextRsc == CallRemoveSmallComponents

SpecRsc == InitRsc /\ [][NextRsc]_vars

-----------------------------------------------------------------------------
(* applySpeckleFilter on a heap of Float32Array objects: the caller holds  *)
(* a raster and one other array.                                           *)

SpeckleFilters == {"undefined", "none", "lee", "kuan", "frost"}

SpeckleSizes == {Undefined, Some(0), Some(1), Some(2), Some(3), Some(5)}

InitSpeckle ==
  /\ pc = "start"
  /\ StoreIdle
  /\ fn = "applySpeckleFilter"
  /\ \E d \in RasterDims, filter \in SpeckleFilters, size \in SpeckleSizes :
       \E data \in Rasters(d[1], d[2], {0, 10}), ref \in 1..2 :
         args = [heap |-> IF ref = 1 THEN <<data, <<7>> >> ELSE << <<7>>, data>>,
                 values |-> ref, width |-> d[1], height |-> d[2],
                 filter |-> filter, size |-> size]
  /\ ret = "none"
  /\ NmsIdle
  /\ DetectIdle

CallApplySpeckleFilter ==
  /\ pc = "start"
  /\ fn = "applySpeckleFilter"
  /\ ret' = applySpeckleFilter(args.heap, args.values, args.width, args.height,
                               args.filter, args.size)
  /\ pc' = "done"
  /\ UNCHANGED <<fn, args>>
  /\ Others("call")

NextSpeckle == CallApplySpeckleFilter

SpecSpeckle == InitSpeckle /\ [][NextSpeckle]_vars

-----------------------------------------------------------------------------
(* buildPolygon for a box of a raster up to MaxW x MaxH, with no bounds or *)
(* with bounds drawn from a few numbers, one of them not finite.           *)

BoundNumbers == {<<-1, 1>>, <<0, 1>>, <<2, 1>>, <<1, 0>>}

ImageBounds ==
  {Undefined} \cup (BoundNumbers \X BoundNumbers \X BoundNumbers \X BoundNumbers)

PolygonBBoxes == [x : 0..1, y : 0..1, width : 1..2, height : 0..1]

InitPolygon ==
  /\ pc = "start"
  /\ StoreIdle
  /\ fn = "buildPolygon"
  /\ \E bbox \in PolygonBBoxes, b \in ImageBounds, d \in RasterDims :
       args = [bbox |-> bbox, imageBounds |-> b, width |-> d[1], height |-> d[2]]
  /\ ret = "none"
  /\ NmsIdle
  /\ DetectIdle

CallBuildPolygon ==
  /\ pc = "start"
  /\ fn = "buildPolygon"
  /\ ret' = buildPolygon(args.bbox, args.imageBounds, args.width, args.height)
  /\ pc' = "done"
  /\ UNCHANGED <<fn, args>>
  /\ Others("call")

NextPolygon == CallBuildPolygon

SpecPolygon == InitPolygon /\ [][NextPolygon]_vars

-----------------------------------------------------------------------------
(* analyzeChange on rasters of different sizes: the before raster holds a  *)
(* ramp (pixel i holds 10 * i), the after raster is flat but for at most   *)
(* one pixel.                                                              *)

\* The sizes of the before raster: up to MaxW x MaxH, and a longer row and
\* column.
BeforeDims == RasterDims \cup {<<5, 1>>, <<1, 4>>}

Ramp(n) == [i \in 1..n |-> 10 * i]

\* Flat rasters of value 10 with no pixel or one pixel at 250.
OnePixelRasters(w, h) ==
  {[i \in 1..(w * h) |-> IF i = k THEN 250 ELSE 10] : k \in 0..(w * h)}

ResizeOptions ==
  {[DefaultOptions EXCEPT !.algorithm = a, !.speckleFilter = f] :
     a \in {"otsu", "kmeans", "isolation_forest"}, f \in {"undefined", "none"}}

InitResize ==
  /\ pc = "start"
  /\ StoreIdle
  /\ fn = "analyzeChange"
  /\ \E bd \in BeforeDims, ad \in RasterDims, o \in ResizeOptions :
       /\ bd # ad
       /\ \E after \in OnePixelRasters(ad[1], ad[2]) :
            args = [before |-> Tiff(bd[1], bd[2], Ramp(bd[1] * bd[2]), Undefined),
                    after |-> Tiff(ad[1], ad[2], after, Undefined),
                    options |-> o]
  /\ ret = "none"
  /\ NmsIdle
  /\ DetectIdle

SpecResize == InitResize /\ [][NextChange]_vars

-----------------------------------------------------------------------------
(* computeMask and applySpeckleFilter with settings outside their valid    *)
(* range.  contamination is in units of 1/10000.                           *)

OutOfRangeOptions ==
  {[DefaultOptions EXCEPT !.algorithm = "kmeans", !.kmeansClusters = Some(c)] :
     c \in {-1, 0, 1}}
    \cup {[DefaultOptions EXCEPT !.algorithm = a, !.contamination = Some(c)] :
            a \in {"isolation_forest", "pca"},
            c \in {-100, 0, 4, 5001, 9000, 20000}}

InitClamp ==
  /\ pc = "start"
  /\ StoreIdle
  /\ \/ /\ fn = "computeMask"
        /\ \E values \in ByteArrays(KmeansSamples), o \in OutOfRangeOptions :
             args = [diff |-> values, width |-> Len(values), height |-> 1,
                     options |-> o]
     \/ /\ fn = "applySpeckleFilter"
        /\ \E d \in RasterDims, filter \in SpeckleFilters, size \in {-3, -1, 0} :
             \E data \in Rasters(d[1], d[2], {0, 10}) :
               args = [heap |-> <<data>>, values |-> 1, width |-> d[1],
                       height |-> d[2], filter |-> filter, size |-> Some(size)]
  /\ ret = "none"
  /\ NmsIdle
  /\ DetectIdle

NextClamp == CallComputeMask \/ CallApplySpeckleFilter

SpecClamp == InitClamp /\ [][NextClamp]_vars

-----------------------------------------------------------------------------
(* computeMask on difference rasters of one value, and analyzeChange on    *)
(* identical before and after rasters.                                     *)

Algorithms == {"otsu", "adaptive", "kmeans", "isolation_forest", "lof", "pca"}

FlatValues == {0, 1, 20, 128, 255}

FlatOptions ==
  {[DefaultOptions EXCEPT !.algorithm = a, !.speckleFilter = "none"] :
     a \in Algorithms}

InitFlat ==
  /\ pc = "start"
  /\ StoreIdle
  /\ \E d \in MaskDims, o \in FlatOptions :
       \/ /\ fn = "computeMask"
          /\ \E v \in FlatValues :
               args = [diff |-> ArrayOf([i \in 1..(d[1] * d[2]) |-> v]),
                       width |-> d[1], height |-> d[2], options |-> o]
       \/ /\ fn = "analyzeChange"
          /\ \E data \in Rasters(d[1], d[2], {10, 250}) :
               /\ d \in RasterDims
               /\ args = [before |-> Tiff(d[1], d[2], data, Undefined),
                          after |-> Tiff(d[1], d[2], data, Undefined),
                          options |-> o]
  /\ ret = "none"
  /\ NmsIdle
  /\ DetectIdle

NextFlat == CallComputeMask \/ CallAnalyzeChange

SpecFlat == InitFlat /\ [][NextFlat]_vars

-----------------------------------------------------------------------------
(* postProcessMask under every combination of active and skipped stages,   *)
(* the caller's mask being an array of the heap.                           *)

\* Every size up to MaxW x MaxH, and the 3 x 3 raster, whose centre pixel
\* has a full window of radius 1.
StageDims == RasterDims \cup {<<3, 3>>}

StageChoices ==
  [openingRadius : 0..1, closingRadius : 0..1, fillHoles : BOOLEAN,
   minBlobArea : {0, 1, 2, 3}]

InitStages ==
  /\ pc = "start"
  /\ StoreIdle
  /\ fn = "postProcessMask"
  /\ \E d \in StageDims, o \in StageChoices :
       \E mask \in Masks(d[1], d[2]) :
         args = [heap |-> <<mask>>, mask |-> 1, width |-> d[1], height |-> d[2],
                 options |-> o]
  /\ ret = "none"
  /\ NmsIdle
  /\ DetectIdle

CallPostProcessMaskOnHeap ==
  /\ pc = "start"
  /\ fn = "postProcessMask"
  /\ ret' = postProcessMaskOnHeap(args.heap, args.mask, args.width, args.height,
                                  args.options)
  /\ pc' = "done"
  /\ UNCHANGED <<fn, args>>
  /\ Others("call")

NextStages == CallPostProcessMaskOnHeap

SpecStages == InitStages /\ [][NextStages]_vars

-----------------------------------------------------------------------------
(* fillHoles on every mask of the small rasters.                           *)

InitFill ==
  /\ pc = "start"
  /\ StoreIdle
  /\ fn = "fillHoles"
  /\ \E d \in MaskDims :
       \E mask \in Masks(d[1], d[2]) :
         args = [mask |-> mask, width |-> d[1], height |-> d[2]]
  /\ ret = "none"
  /\ NmsIdle
  /\ DetectIdle

CallFillHoles ==
  /\ pc = "start"
  /\ fn = "fillHoles"
  /\ ret' = fillHoles(args.mask, args.width, args.height)
  /\ pc' = "done"
  /\ UNCHANGED <<fn, args>>
  /\ Others("call")

NextFill == CallFillHoles

SpecFill == InitFill /\ [][NextFill]_vars

-----------------------------------------------------------------------------
(* The otsu algorithm: otsuThreshold, and computeMask with and without a   *)
(* manual threshold.                                                       *)

\* Byte values on both sides of the manual thresholds 0, 64 and 128.
ManualSamples == {0, 128, 129}

\* otsuManualThreshold: left out, or 0, 1/4 (63.75), 1/2 (127.5), 1.
ManualThresholds == {Undefined, <<0, 1>>, <<1, 4>>, <<1, 2>>, <<1, 1>>}

InitOtsuMask ==
  /\ pc = "start"
  /\ StoreIdle
  /\ \/ /\ fn = "otsuThreshold"
        /\ \E values \in ByteArrays(OtsuSamples) : args = [values |-> values]
     \/ /\ fn = "computeMask"
        /\ \E values \in ByteArrays(ManualSamples), manual \in ManualThresholds :
             args = [diff |-> values, width |-> Len(values), height |-> 1,
                     options |-> [DefaultOptions EXCEPT
                                    !.otsuManualThreshold = manual]]
  /\ ret = "none"
  /\ NmsIdle
  /\ DetectIdle

NextOtsuMask == CallOtsuThreshold \/ CallComputeMask

SpecOtsuMask == InitOtsuMask /\ [][NextOtsuMask]_vars

-----------------------------------------------------------------------------
(* AnalysisPanel.tsx: handleRunDetection of ObjectDetectionPanel, and the  *)
(* asynchronous steps of detectObjects.  A File is a record whose tiff is  *)
(* what readSingleBand decodes from it, Null when it cannot be decoded.    *)

\* (detectObjects as any).iou is read off the function object, which has no
\* such property: the overlap of the merge loop is always 0.
MergeOverlap(a, m) == <<0, 1>>

\* The best overlapping algorithmic box: the first one whose overlap exceeds
\* every overlap before it and is exceeded by none after it; Null when no
\* overlap exceeds 0.
BestMatch(algBoxes, m) ==
  LET better == {k \in 1..Len(algBoxes) :
                   /\ QLess(<<0, 1>>, MergeOverlap(algBoxes[k].bbox, m.bbox))
                   /\ \A j \in 1..(k - 1) :
                        QLess(MergeOverlap(algBoxes[j].bbox, m.bbox),
                              MergeOverlap(algBoxes[k].bbox, m.bbox))
                   /\ \A j \in (k + 1)..Len(algBoxes) :
                        ~QLess(MergeOverlap(algBoxes[k].bbox, m.bbox),
                               MergeOverlap(algBoxes[j].bbox, m.bbox))}
  IN IF better = {} THEN Null ELSE algBoxes[CHOOSE k \in better : TRUE]

\* The body of "for (const m of modelResp.boxes)".
MergeModelBox(mergedBoxes, algBoxes, m) ==
  LET bestMatch == BestMatch(algBoxes, m)
      bestIou == IF bestMatch = Null THEN <<0, 1>>
                 ELSE MergeOverlap(bestMatch.bbox, m.bbox)
  IN IF bestMatch # Null /\ ~QLess(bestIou, <<7, 20>>)
     THEN IF ~QLess(m.confidence, bestMatch.confidence)
          THEN [k \in 1..Len(mergedBoxes) |->
                  IF mergedBoxes[k].id = bestMatch.id THEN m ELSE mergedBoxes[k]]
          ELSE [k \in 1..Len(mergedBoxes) |->
                  IF mergedBoxes[k].id = bestMatch.id
                  THEN [mergedBoxes[k] EXCEPT
                          !.confidence = QMax(@, QMul(m.confidence, <<9, 10>>))]
                  ELSE mergedBoxes[k]]
     ELSE Append(mergedBoxes, m)

RECURSIVE MergeModelBoxes(_, _, _, _)
MergeModelBoxes(mergedBoxes, algBoxes, modelBoxes, k) ==
  IF k > Len(modelBoxes) THEN mergedBoxes
  ELSE MergeModelBoxes(MergeModelBox(mergedBoxes, algBoxes, modelBoxes[k]),
                       algBoxes, modelBoxes, k + 1)

\* Array.from(new Map(boxes.map((b) => [b.id, b])).values()): one entry per
\* id, at the place of the first box of that id, holding the last one.
DedupeById(bs) ==
  LET firsts == SelectSeq([k \in 1..Len(bs) |-> k],
                          LAMBDA k : \A j \in 1..(k - 1) : bs[j].id # bs[k].id)
      last(id) == CHOOSE k \in 1..Len(bs) :
                    /\ bs[k].id = id
                    /\ \A j \in (k + 1)..Len(bs) : bs[j].id # id
  IN [i \in 1..Len(firsts) |-> bs[last(bs[firsts[i]].id)]]

\* boxes.sort((a, b) => b.confidence - a.confidence)
SortedByConfidence(bs) ==
  LET order == SortByConfidence(ConfidenceRanks(bs), Len(bs))
  IN [k \in 1..Len(order) |-> bs[order[k]]]

\* mergedBoxes of handleRunDetection.
MergedBoxes(detection, modelResp) ==
  IF modelResp # Null /\ modelResp.boxes # <<>>
  THEN SortedByConfidence(DedupeById(
         MergeModelBoxes(detection.boxes, detection.boxes, modelResp.boxes, 1)))
  ELSE detection.boxes

\* The options handleRunDetection passes to detectObjects.
PanelOptions(panel) ==
  [thresholdPercentile |-> panel.thresholdPercentile,
   minAreaPixels |-> panel.minAreaPixels,
   maxDetections |-> panel.maxDetections]

\* The click on "Run Detection" (enabled unless isProcessing or no
\* afterImage): handleRunDetection up to its await, and detectObjects up to
\* its await of readSingleBand.
Run(p) ==
  /\ panels[p].pc = "idle"
  /\ ~panels[p].isProcessing
  /\ panels[p].afterImage # Null
  /\ panels' = [panels EXCEPT ![p].error = "", ![p].isProcessing = TRUE,
                              ![p].pc = "reading"]
  /\ UNCHANGED <<lastDebug, pc>>
  /\ Others("detect")

\* What a finished run of detectObjects leaves behind.
Ran(p, run) ==
  /\ lastDebug' = run.lastDebug
  /\ panels' = [panels EXCEPT ![p].pc = "detected",
                              ![p].detection = run.result]

\* readSingleBand settles and detectObjects runs to its end: it stores the
\* debug record in detectObjects.__lastDebug and returns, or throws when the
\* file cannot be decoded or the preview canvas has no context.
Detect(p) ==
  /\ panels[p].pc = "reading"
  /\ \/ /\ panels[p].afterImage.tiff = Null
        /\ panels' = [panels EXCEPT ![p].pc = "detected",
                                    ![p].detection = [error |-> "Unable to decode"]]
        /\ UNCHANGED lastDebug
     \/ /\ panels[p].afterImage.tiff # Null
        /\ \E canvas \in BOOLEAN :
             Ran(p, DetectRun(panels[p].afterImage.tiff,
                              PanelOptions(panels[p]), canvas))
  /\ UNCHANGED pc
  /\ Others("detect")

\* The rest of the try block once the detection and the model response are
\* there: merge, attach detectObjects.__lastDebug, publish.
Completed(panel, modelResp) ==
  LET mergedBoxes == MergedBoxes(panel.detection, modelResp)
      debugUrls == lastDebug
      detection == IF debugUrls # Undefined
                   THEN [debugMaskUrls |-> debugUrls[1]] @@ panel.detection
                   ELSE panel.detection
      finalDetection ==
        [boxes |-> mergedBoxes,
         modelUsed |-> panel.useModel,
         modelAvailable |-> modelResp # Null /\ modelResp.boxes # <<>>] @@ detection
  IN [panel EXCEPT !.detection = detection,
                   !.results = finalDetection,
                   !.selectedBoxId = IF mergedBoxes # <<>> THEN mergedBoxes[1].id
                                     ELSE Null,
                   !.reported = detection,
                   !.pc = "settling"]

\* handleRunDetection resumes after "await detectObjects": the catch block
\* for a rejection, the await of inferWithModel when useModel is set, and
\* otherwise the rest of the try block in one go.
Resume(p) ==
  /\ panels[p].pc = "detected"
  /\ panels' =
       [panels EXCEPT ![p] =
          IF "error" \in DOMAIN panels[p].detection
          THEN [@ EXCEPT !.error = panels[p].detection.error, !.results = Null,
                         !.selectedBoxId = Null, !.reported = Null,
                         !.pc = "settling"]
          ELSE IF panels[p].useModel THEN [@ EXCEPT !.pc = "inferring"]
          ELSE Completed(@, Null)]
  /\ UNCHANGED <<lastDebug, pc>>
  /\ Others("detect")

\* The answers of inferWithModel: null (no server, an error, a bad status)
\* or boxes, one of them under an id detectObjects also hands out.
ModelBox(id) ==
  [id |-> id, label |-> "Building", categoryId |-> "building",
   confidence |-> <<9, 10>>,
   bbox |-> [x |-> 0, y |-> 0, width |-> 1, height |-> 1],
   previewBox |-> [x |-> <<0, 1>>, y |-> <<0, 1>>, width |-> <<0, 1>>,
                   height |-> <<0, 1>>],
   areaPixels |-> 1, centroid |-> [x |-> <<0, 1>>, y |-> <<0, 1>>],
   centroidPreview |-> [x |-> <<0, 1>>, y |-> <<0, 1>>],
   footprint |-> Null, notes |-> "model"]

ModelResponses ==
  {Null, [boxes |-> <<>>], [boxes |-> <<ModelBox(<<"model", 1>>)>>],
   [boxes |-> <<ModelBox(<<"m", 1>>)>>]}

\* inferWithModel settles and handleRunDetection runs the rest of its try
\* block.
Infer(p) ==
  /\ panels[p].pc = "inferring"
  /\ \E modelResp \in ModelResponses :
       panels' = [panels EXCEPT ![p] = Completed(@, modelResp)]
  /\ UNCHANGED <<lastDebug, pc>>
  /\ Others("detect")

\* setTimeout(() => setIsProcessing(false), 300) of the finally block.
Settle(p) ==
  /\ panels[p].pc = "settling"
  /\ panels' = [panels EXCEPT ![p].isProcessing = FALSE, ![p].pc = "idle"]
  /\ UNCHANGED <<lastDebug, pc>>
  /\ Others("detect")

NextDetect ==
  \/ \E p \in 1..Len(panels) : Run(p)
  \/ \E p \in 1..Len(panels) : Detect(p)
  \/ \E p \in 1..Len(panels) : Resume(p)
  \/ \E p \in 1..Len(panels) : Infer(p)
  \/ \E p \in 1..Len(panels) : Settle(p)

\* A freshly mounted panel.
Panel(afterImage, thresholdPercentile, minAreaPixels, maxDetections, useModel) ==
  [afterImage |-> afterImage,
   thresholdPercentile |-> thresholdPercentile,
   minAreaPixels |-> minAreaPixels,
   maxDetections |-> maxDetections,
   useModel |-> useModel,
   isProcessing |-> FALSE,
   error |-> "",
   results |-> Null,
   selectedBoxId |-> Null,
   reported |-> Null,
   detection |-> Null,
   pc |-> "idle"]

File(name, tiff) == [name |-> name, tiff |-> tiff]

\* A decoded raster without georeference.
Band(w, h, data) ==
  [width |-> w, height |-> h, data |-> data, bbox |-> Undefined,
   pixelScale |-> Undefined]

-----------------------------------------------------------------------------
(* One panel, run on every raster of two sample values up to               *)
(* DetectW x DetectH and on a row of five pixels.                          *)

DetectW == 3

DetectH == 2

DetectDims == (1..DetectW) \X (1..DetectH)

DetectFiles ==
  UNION {{File("after.tif", Band(d[1], d[2], data)) :
            data \in Rasters(d[1], d[2], {0, 255})} : d \in DetectDims}
    \cup {File("row.tif", Band(5, 1, <<100, 0, 0, 0, 255>>)),
          File("broken.tif", Null)}

InitDetect ==
  /\ pc = "start"
  /\ StoreIdle
  /\ \E f \in DetectFiles, p \in {50, 95}, a \in {1, 2},
        m \in {Undefined, Some(0), Some(1), Some(2)},
        u \in BOOLEAN :
       panels = <<Panel(f, p, a, m, u)>>
  /\ lastDebug = Undefined
  /\ CallIdle
  /\ NmsIdle

SpecDetect == InitDetect /\ [][NextDetect]_vars

-----------------------------------------------------------------------------
(* Two panels mounted side by side, each with its own after image.         *)

MaxPanels == 2

PanelFiles ==
  {File("a.tif", Band(2, 1, <<0, 255>>)),
   File("b.tif", Band(1, 2, <<255, 0>>)),
   File("broken.tif", Null)}

InitPanels ==
  /\ pc = "start"
  /\ StoreIdle
  /\ \E fs \in [1..MaxPanels -> PanelFiles], us \in [1..MaxPanels -> BOOLEAN] :
       panels = [p \in 1..MaxPanels |-> Panel(fs[p], 95, 1, Undefined, us[p])]
  /\ lastDebug = Undefined
  /\ CallIdle
  /\ NmsIdle

SpecPanels == InitPanels /\ [][NextDetect]_vars

-----------------------------------------------------------------------------
(* computeMask with the two rank-threshold algorithms, contamination in    *)
(* units of 1/10000.                                                       *)

RankContaminations ==
  {Undefined, Some(1), Some(100), Some(2500), Some(4000), Some(5000), Some(9000)}

RankOptions ==
  {[DefaultOptions EXCEPT !.algorithm = a, !.contamination = c] :
     a \in {"isolation_forest", "pca"}, c \in RankContaminations}

InitRank ==
  /\ pc = "start"
  /\ StoreIdle
  /\ fn = "computeMask"
  /\ \E values \in ByteArrays(KmeansSamples), o \in RankOptions :
       args = [diff |-> values, width |-> Len(values), height |-> 1,
               options |-> o]
  /\ ret = "none"
  /\ NmsIdle
  /\ DetectIdle

NextRank == CallComputeMask

SpecRank == InitRank /\ [][NextRank]_vars

-----------------------------------------------------------------------------
(* normalizeToUint8 and normalize on rasters with non-finite samples and   *)
(* with a spread of the samples below the range floor.                      *)

MaxStretch == 4

StretchSamples == <<0, 1, 3, 200, "NaN", "Infinity", "-Infinity">>

\* Rasters long enough for the 2nd, the 98th and the 99.5th percentile to be
\* three different samples.
StretchRamps ==
  << [i \in 1..27 |-> i - 1],
     [i \in 1..27 |-> 3 * (27 - i)],
     [i \in 1..29 |-> IF i = 5 THEN "NaN" ELSE IF i = 9 THEN "Infinity"
                      ELSE (7 * i) % 30],
     [i \in 1..27 |-> IF i < 26 THEN 4 ELSE i - 21] >>

InitStretch ==
  /\ pc = "start"
  /\ StoreIdle
  /\ fn \in {"normalizeToUint8", "normalize"}
  /\ \E floor \in {WholeUnit, FineUnit} :
       \/ \E r \in 1..Len(StretchRamps) :
            args = [values |-> ArrayOf(StretchRamps[r]), floor |-> floor]
       \/ \E c \in UNION {[1..n -> 1..Len(StretchSamples)] : n \in 1..MaxStretch} :
            args = [values |-> ArrayOf([i \in DOMAIN c |-> StretchSamples[c[i]]]),
                    floor |-> floor]
  /\ ret = "none"
  /\ NmsIdle
  /\ DetectIdle

CallNormalizeToUint8 ==
  /\ pc = "start"
  /\ fn = "normalizeToUint8"
  /\ ret' = normalizeToUint8In(args.values, args.floor)
  /\ pc' = "done"
  /\ UNCHANGED <<fn, args>>
  /\ Others("call")

CallNormalize ==
  /\ pc = "start"
  /\ fn = "normalize"
  /\ ret' = normalizeIn(args.values, args.floor)
  /\ pc' = "done"
  /\ UNCHANGED <<fn, args>>
  /\ Others("call")

NextStretch == CallNormalizeToUint8 \/ CallNormalize

SpecStretch == InitStretch /\ [][NextStretch]_vars

-----------------------------------------------------------------------------
(* floodFillComponents on every mask of the small rasters.                 *)

InitFlood ==
  /\ pc = "start"
  /\ StoreIdle
  /\ fn = "floodFillComponents"
  /\ \E d \in MaskDims :
       \E mask \in Masks(d[1], d[2]) :
         args = [mask |-> mask, width |-> d[1], height |-> d[2]]
  /\ ret = "none"
  /\ NmsIdle
  /\ DetectIdle

CallFloodFillComponents ==
  /\ pc = "start"
  /\ fn = "floodFillComponents"
  /\ ret' = floodFillComponents(args.mask, args.width, args.height)
  /\ pc' = "done"
  /\ UNCHANGED <<fn, args>>
  /\ Others("call")

NextFlood == CallFloodFillComponents

SpecFlood == InitFlood /\ [][NextFlood]_vars

-----------------------------------------------------------------------------
(* The linearity of every component of every mask of the small rasters.    *)

InitLinearity ==
  /\ pc = "start"
  /\ StoreIdle
  /\ fn = "linearity"
  /\ \E d \in MaskDims :
       \E mask \in Masks(d[1], d[2]) :
         args = [mask |-> mask, width |-> d[1], height |-> d[2]]
  /\ ret = "none"
  /\ NmsIdle
  /\ DetectIdle

\* buildDetectionBoxes on the components of the mask, up to the linearity.
MeasureLinearity ==
  /\ pc = "start"
  /\ fn = "linearity"
  /\ ret' = ComponentLinearities(
              floodFillComponents(args.mask, args.width, args.height),
              args.mask, args.width, args.height)
  /\ pc' = "done"
  /\ UNCHANGED <<fn, args>>
  /\ Others("call")

NextLinearity == MeasureLinearity

SpecLinearity == InitLinearity /\ [][NextLinearity]_vars

-----------------------------------------------------------------------------
(* buildDetectionBoxes on lines, corners and blocks whose longer side is   *)
(* around 20, 40 and 50 pixels.                                             *)

\* A mask of the given shape on a raster of w by h pixels: the top row, the
\* left column, both, or every pixel.
ShapeMask(shape, w, h) ==
  ArrayOf([k \in 1..(w * h) |->
     LET x == (k - 1) % w
         y == (k - 1) \div w
     IN IF \/ shape = "block"
           \/ shape \in {"row", "corner"} /\ y = 0
           \/ shape \in {"column", "corner"} /\ x = 0
        THEN 1 ELSE 0])

ShapeRasters ==
  {<<"row", w, 1>> : w \in {18, 19, 20, 21, 22, 35, 40, 51}}
    \cup {<<"column", 2, h>> : h \in {18, 19, 20, 21, 22, 35, 40, 51}}
    \cup {<<"corner", d[1], d[2]>> :
            d \in {<<19, 7>>, <<20, 7>>, <<21, 7>>, <<20, 6>>, <<7, 20>>,
                   <<40, 14>>, <<50, 17>>, <<51, 17>>}}
    \cup {<<"block", d[1], d[2]>> : d \in {<<19, 3>>, <<20, 3>>, <<3, 20>>}}
    \cup {<<"column", d[1], d[2]>> :
            d \in {<<4, 20>>, <<4, 21>>, <<4, 40>>, <<5, 40>>}}

InitShapes ==
  /\ pc = "start"
  /\ StoreIdle
  /\ fn = "buildDetectionBoxes"
  /\ \E r \in ShapeRasters, bright \in {128, 255}, minArea \in {1, 20, 40} :
       args = [mask |-> ShapeMask(r[1], r[2], r[3]),
               data |-> ArrayOf([k \in 1..(r[2] * r[3]) |->
                                   bright * ShapeMask(r[1], r[2], r[3])[k]]),
               width |-> r[2], height |-> r[3],
               options |-> [thresholdPercentile |-> 95,
                            minAreaPixels |-> minArea,
                            maxDetections |-> Some(200)]]
  /\ ret = "none"
  /\ NmsIdle
  /\ DetectIdle

\* buildDetectionBoxes(floodFillComponents(mask, width, height), mask, ...)
CallBuildDetectionBoxes ==
  /\ pc = "start"
  /\ fn = "buildDetectionBoxes"
  /\ ret' = buildDetectionBoxes(
              floodFillComponents(args.mask, args.width, args.height),
              args.mask, args.data, args.width, args.height, args.options)
  /\ pc' = "done"
  /\ UNCHANGED <<fn, args>>
  /\ Others("call")

NextShapes == CallBuildDetectionBoxes

SpecShapes == InitShapes /\ [][NextShapes]_vars

-----------------------------------------------------------------------------
(* detectObjects on rasters of 48 columns with up to twelve bright pixels  *)
(* in one row, four columns apart: enough boxes for the fallback to be     *)
(* decided by where they lie.                                               *)

\* count bright pixels in the given row of a raster of 48 by h pixels.
DottedRow(h, row, count) ==
  ArrayOf([k \in 1..(48 * h) |->
     LET x == (k - 1) % 48
         y == (k - 1) \div 48
     IN IF y = row /\ x % 4 = 0 /\ x < 4 * count THEN 255 ELSE 0])

DottedFiles ==
  {File("dots.tif", Band(48, h, DottedRow(h, row, count))) :
     h \in 1..4, row \in 0..3, count \in {10, 11, 12}}

InitCascade ==
  /\ pc = "start"
  /\ StoreIdle
  /\ fn = "detectObjects"
  /\ \E f \in DottedFiles,
        minArea \in {1, 2}, m \in {Undefined, Some(200)} :
       args = [tiff |-> f.tiff,
               options |-> [thresholdPercentile |-> 95,
                            minAreaPixels |-> minArea,
                            maxDetections |-> m]]
  /\ ret = "none"
  /\ NmsIdle
  /\ DetectIdle

\* detectObjects on a decoded raster, with a canvas whose 2D context exists.
CallDetectObjects ==
  /\ pc = "start"
  /\ fn = "detectObjects"
  /\ ret' = DetectRun(args.tiff, args.options, TRUE)
  /\ pc' = "done"
  /\ UNCHANGED <<fn, args>>
  /\ Others("call")

NextCascade == CallDetectObjects

SpecCascade == InitCascade /\ [][NextCascade]_vars

-----------------------------------------------------------------------------
(* zhangSuenThin on every mask of the rasters of 4 by 4 and 5 by 3 pixels.  *)

ThinDims == {<<4, 4>>, <<5, 3>>, <<3, 3>>}

InitThin ==
  /\ pc = "start"
  /\ StoreIdle
  /\ fn = "zhangSuenThin"
  /\ \E d \in ThinDims :
       \E mask \in Masks(d[1], d[2]) :
         args = [mask |-> mask, width |-> d[1], height |-> d[2]]
  /\ ret = "none"
  /\ NmsIdle
  /\ DetectIdle

CallZhangSuenThin ==
  /\ pc = "start"
  /\ fn = "zhangSuenThin"
  /\ ret' = zhangSuenThin(args.mask, args.width, args.height)
  /\ pc' = "done"
  /\ UNCHANGED <<fn, args>>
  /\ Others("call")

NextThin == CallZhangSuenThin

SpecThin == InitThin /\ [][NextThin]_vars

-----------------------------------------------------------------------------
(* The labeling history of labelingAnalytics.ts.  window.localStorage      *)
(* holds one item of text per key.  A text is a record: what kind of text  *)
(* it is and, for the JSON text of an array, the JSON texts of its         *)
(* elements.  A parsed value carries whether it is an array.               *)

SNAPSHOT_KEY == "noctis-orbit.semantic.snapshots"

EXPORT_KEY == "noctis-orbit.semantic.exports"

\* The length the histories are cut to (the literal of lines 37 and 43).
HistoryLimit == 50

\* Texts an item can hold that no persist call wrote: the empty string, a
\* text that is not JSON, and the JSON text of a value that is no array.
EmptyText == [text |-> "", items |-> <<>>]

CorruptText == [text |-> "corrupt", items |-> <<>>]

ObjectText == [text |-> "object", items |-> <<>>]

\* JSON.stringify of a LabelingSummary or a LabelExportPayload: the values of
\* its own properties in order (plain strings, finite numbers and arrays of
\* them, which JSON keeps as they are).
StringifyValue(obj) ==
  IF "format" \in DOMAIN obj
  THEN [members |-> <<obj.labels, obj.annotations, obj.updatedAt,
                      obj.format, obj.geojson>>]
  ELSE [members |-> <<obj.labels, obj.annotations, obj.updatedAt>>]

\* JSON.stringify of an array of them.
JSONstringify(value) ==
  [text |-> "array",
   items |-> ArrayOf([i \in 1..Len(value) |-> StringifyValue(value[i])])]

\* JSON.parse of the text of one element.
ParseValue(t) ==
  IF Len(t.members) = 5
  THEN [labels |-> t.members[1], annotations |-> t.members[2],
        updatedAt |-> t.members[3], format |-> t.members[4],
        geojson |-> t.members[5]]
  ELSE [labels |-> t.members[1], annotations |-> t.members[2],
        updatedAt |-> t.members[3]]

\* JSON.parse: Undefined when it throws, else the value and whether it is an
\* array.
JSONparse(raw) ==
  IF raw.text = "array"
  THEN Some([isArray |-> TRUE,
             value |-> ArrayOf([i \in 1..Len(raw.items) |->
                                  ParseValue(raw.items[i])])])
  ELSE IF raw.text = "object"
  THEN Some([isArray |-> FALSE, value |-> <<>>])
  ELSE Undefined

readStore(store, key) ==
  LET raw == store[key]
  IN IF raw = Null \/ raw = EmptyText THEN <<>>
     ELSE IF JSONparse(raw) = Undefined THEN <<>>
     ELSE IF JSONparse(raw)[1].isArray THEN JSONparse(raw)[1].value
     ELSE <<>>

writeStore(store, key, value) ==
  [store EXCEPT ![key] = JSONstringify(value)]

\* Array.prototype.unshift and Array.prototype.slice(0, end).
UnshiftAtEnd(history, v) == Append(history, v)
Unshift(history, v) == <<v>> \o history

Slice(history, end) == SubSeq(history, 1, Min(end, Len(history)))

persistLabelingSnapshot(store, summary) ==
  writeStore(store, SNAPSHOT_KEY,
             Slice(Unshift(readStore(store, SNAPSHOT_KEY), summary),
                   HistoryLimit))

persistLabelExport(store, payload) ==
  writeStore(store, EXPORT_KEY,
             Slice(Unshift(readStore(store, EXPORT_KEY), payload),
                   HistoryLimit))

\* How many calls of each function a behaviour makes.
MaxCalls == 52

\* The summary of the n-th labeling: n % 3 labels, one annotation on the
\* odd ones, and the time n.
SummaryAt(n) ==
  [labels |-> ArrayOf([i \in 1..(n % 3) |-> i]),
   annotations |-> ArrayOf([i \in 1..(n % 2) |-> <<i, n>>]),
   updatedAt |-> n]

\* The payload of the n-th export: a summary with its feature collection.
PayloadAt(n) ==
  [labels |-> SummaryAt(n).labels,
   annotations |-> SummaryAt(n).annotations,
   updatedAt |-> n,
   format |-> "geojson",
   geojson |-> [type |-> "FeatureCollection", features |-> n % 2]]

\* What the items hold before the first call.
StoredBefore == {Null, EmptyText, CorruptText, ObjectText}

InitStore ==
  /\ pc = "start"
  /\ CallIdle
  /\ NmsIdle
  /\ DetectIdle
  /\ storage \in [{SNAPSHOT_KEY, EXPORT_KEY} -> StoredBefore]
  /\ persisted = [k \in {SNAPSHOT_KEY, EXPORT_KEY} |-> <<>>]

\* handleLabelingComplete: persistLabelingSnapshot(summary).
PersistLabelingSnapshot ==
  /\ Len(persisted[SNAPSHOT_KEY]) < MaxCalls
  /\ LET summary == SummaryAt(Len(persisted[SNAPSHOT_KEY]) + 1)
     IN /\ storage' = persistLabelingSnapshot(storage, summary)
        /\ persisted' = [persisted EXCEPT ![SNAPSHOT_KEY] = Append(@, summary)]
  /\ UNCHANGED pc
  /\ Others("store")

\* handleLabelExport: persistLabelExport(payload).
PersistLabelExport ==
  /\ Len(persisted[EXPORT_KEY]) < MaxCalls
  /\ LET payload == PayloadAt(Len(persisted[EXPORT_KEY]) + 1)
     IN /\ storage' = persistLabelExport(storage, payload)
        /\ persisted' = [persisted EXCEPT ![EXPORT_KEY] = Append(@, payload)]
  /\ UNCHANGED pc
  /\ Others("store")

NextStore ==
  \/ PersistLabelingSnapshot
  \/ PersistLabelExport

SpecStore == InitStore /\ [][NextStore]_vars

-----------------------------------------------------------------------------
(* Claims about analyzeChange.                                             *)

\* C3: changedPixels is the number of set pixels of the returned mask,
\* changePercentage is 100 * changedPixels / (width * height), and it lies
\* in [0, 100].
C3_ChangeStatistics ==
  (pc = "done" /\ fn = "analyzeChange") =>
    LET total == args.after.width * args.after.height
    IN /\ Len(ret.mask) = total
       /\ ret.changedPixels = Popcount(ret.mask)
       /\ RatEQ(ret.changePercentage, <<100 * Popcount(ret.mask), total>>)
       /\ RatGE(ret.changePercentage, <<0, 1>>)
       /\ RatGE(<<100, 1>>, ret.changePercentage)

\* A run whose post-processing changed the mask and left some pixels set.
C3_Witness ==
  /\ pc = "done"
  /\ fn = "analyzeChange"
  /\ ret.changedPixels > 0
  /\ ret.changedPixels < Len(ret.mask)
  /\ ret.mask # computeMask(ret.diff, args.after.width, args.after.height, args.options)

\* The pixels of the 2 x 2 block of the scenario (rows 1-2, columns 1-2 of
\* the 4 x 4 raster).
ScenarioBlock == {6, 7, 10, 11}

\* C4: in the 4 x 4 otsu scenario the mask is set on exactly the pixels
\* whose value differs between before and after; for the 2 x 2 block that is
\* changedPixels = 4 and changePercentage = 25.
C4_ScenarioMask ==
  (pc = "done" /\ fn = "analyzeChange" /\ args.options = ScenarioOptions) =>
    /\ \A i \in 1..Len(ret.mask) :
         ret.mask[i] = (IF args.after.data[i] # args.before.data[i] THEN 1 ELSE 0)
    /\ {i \in 1..16 : args.after.data[i] = 250} = ScenarioBlock =>
         /\ ret.changedPixels = 4
         /\ RatEQ(ret.changePercentage, <<25, 1>>)

\* The scenario run with the 2 x 2 block.
C4_Witness ==
  /\ pc = "done"
  /\ fn = "analyzeChange"
  /\ args.options = ScenarioOptions
  /\ {i \in 1..16 : args.after.data[i] = 250} = ScenarioBlock
  /\ ret.changedPixels = 4

-----------------------------------------------------------------------------
(* Claims about nonMaximumSuppression, checked under SpecNms.              *)

\* The unit cells a box covers: intersection and union by counting.
CellsOf(b) ==
  {<<i, j>> : i \in b.x..(b.x + b.width - 1), j \in b.y..(b.y + b.height - 1)}

OverlapAtLeast(a, b, t) ==
  LET i == Cardinality(CellsOf(a) \cap CellsOf(b))
      u == Cardinality(CellsOf(a) \cup CellsOf(b))
  IN u > 0 /\ i * t[2] >= t[1] * u

EffectiveThreshold ==
  IF threshold = Undefined THEN NmsDefaultThreshold ELSE threshold

\* C1: the list nonMaximumSuppression returns holds no two distinct boxes
\* whose IoU is at least the (positive) threshold.
C1_NoTwoKeptOverlap ==
  pc = "done" =>
    \A i, j \in 1..Len(keep) :
      i # j => ~OverlapAtLeast(boxes[keep[i]].bbox, boxes[keep[j]].bbox,
                               EffectiveThreshold)

\* A call that suppressed a box and kept at least two.
C1_Witness ==
  /\ pc = "done"
  /\ Len(keep) >= 2
  /\ Len(keep) < Len(boxes)

\* C2: the returned list holds boxes of the input, each at most once, in
\* non-increasing confidence, equal confidences in input order; the call
\* leaves the caller's list as it was.
C2_SubListSortedStable ==
  [][pc' = "done" =>
       /\ boxes' = boxes
       /\ \A i \in 1..Len(keep') : keep'[i] \in 1..Len(boxes)
       /\ \A i, j \in 1..Len(keep') :
            i < j =>
              /\ keep'[i] # keep'[j]
              /\ boxes[keep'[i]].confidence >= boxes[keep'[j]].confidence
              /\ boxes[keep'[i]].confidence = boxes[keep'[j]].confidence
                   => keep'[i] < keep'[j]]_vars

\* A call whose result was reordered by the sort and holds a tie.
C2_Witness ==
  /\ pc = "done"
  /\ \E i, j \in 1..Len(keep) : i < j /\ keep[i] > keep[j]
  /\ \E i, j \in 1..Len(keep) :
       i < j /\ boxes[keep[i]].confidence = boxes[keep[j]].confidence

-----------------------------------------------------------------------------
(* Claims about the mask operations.                                       *)

\* C5: opening (dilate after erode) and closing (erode after dilate) are
\* idempotent for every radius >= 1: applied to its own result, the
\* operation returns that result unchanged, taps outside the raster being
\* skipped.
C5_OpeningClosingIdempotent ==
  [][(fn = "postProcessMask" /\ pc = "done" /\ pc' = "again") => ret' = ret]_vars

\* A second application to a result that differs from the original mask,
\* has set and unset pixels, and has a set pixel on the raster border.
C5_Witness ==
  /\ pc = "again"
  /\ fn = "postProcessMask"
  /\ ret # args.mask
  /\ Popcount(ret) > 0
  /\ Popcount(ret) < Len(ret)
  /\ ret[1] = 1

-----------------------------------------------------------------------------
(* Claims about otsuThreshold.                                             *)

ValuesOf(values) == {values[i] : i \in 1..Len(values)}

\* The values split into two non-empty clusters by a < b: every value is
\* <= a or >= b.  For the values of a raster it is enough to take a and b
\* among them (a as the largest value of the low cluster, b as the smallest
\* of the high one).
TwoClusters(values, a, b) ==
  /\ a < b
  /\ \A v \in ValuesOf(values) : v <= a \/ v >= b

\* C6 as stated: for every split of the values into two clusters, the
\* threshold lies strictly between the largest value of the low cluster and
\* the smallest value of the high cluster.
C6_StrictlyBetweenClusters ==
  (pc = "done" /\ fn = "otsuThreshold") =>
    \A a, b \in ValuesOf(args.values) :
      TwoClusters(args.values, a, b) => (a < ret /\ ret < b)

\* C6, amended: for a raster holding exactly two distinct values a < b the
\* threshold is a, so a <= threshold < b and "value > threshold" holds of
\* exactly the pixels of value b.
C6_TwoValuesThresholdIsLow ==
  (pc = "done" /\ fn = "otsuThreshold") =>
    \A a, b \in ValuesOf(args.values) :
      (a < b /\ ValuesOf(args.values) = {a, b}) =>
        /\ ret = a
        /\ a <= ret /\ ret < b
        /\ \A i \in 1..Len(args.values) : (args.values[i] > ret) <=> (args.values[i] = b)

\* A raster of the two values 100 and 255, in unequal numbers.
C6_Witness ==
  /\ pc = "done"
  /\ fn = "otsuThreshold"
  /\ ValuesOf(args.values) = {100, 255}
  /\ Len(args.values) >= 3
  /\ ret = 100

-----------------------------------------------------------------------------
(* Claims about kmeans1D.                                                  *)

KmeansScenario == <<0, 0, 0, 100, 100, 100>>

\* C7: on [0,0,0,100,100,100] with 2 clusters and at least 2 iterations
\* kmeans1D ends with centers [0, 100] and labels that separate exactly the
\* three 0-values from the three 100-values; the kmeans mask of computeMask
\* is set on exactly the 100-valued pixels.
C7_KmeansScenario ==
  /\ (pc = "done" /\ fn = "kmeans1D" /\ args.values = KmeansScenario
        /\ args.clusters = 2 /\ args.iterations >= 2) =>
       /\ Len(ret.centers) = 2
       /\ RatEQ(ret.centers[1], <<0, 1>>)
       /\ RatEQ(ret.centers[2], <<100, 1>>)
       /\ {i \in 1..6 : ret.labels[i] = ret.labels[1]} = {1, 2, 3}
       /\ {i \in 1..6 : ret.labels[i] = ret.labels[4]} = {4, 5, 6}
  /\ (pc = "done" /\ fn = "computeMask" /\ args.diff = KmeansScenario
        /\ Max(2, OrElse(args.options.kmeansClusters, 2)) = 2
        /\ Max(1, OrElse(args.options.kmeansIterations, 6)) >= 2) =>
       ret = <<0, 0, 0, 1, 1, 1>>

\* The scenario run with exactly 2 iterations.
C7_Witness ==
  /\ pc = "done"
  /\ fn = "kmeans1D"
  /\ args = [values |-> KmeansScenario, clusters |-> 2, iterations |-> 2]
  /\ ret.labels = <<0, 0, 0, 1, 1, 1>>

-----------------------------------------------------------------------------
(* Claims about removeSmallComponents.                                     *)

\* Pixels p and q (1-based positions) are 4-neighbours: same row and
\* adjacent columns, or same column and adjacent rows.
Adjacent4(p, q, width) ==
  \/ PixelY(p, width) = PixelY(q, width) /\ Abs(PixelX(p, width) - PixelX(q, width)) = 1
  \/ PixelX(p, width) = PixelX(q, width) /\ Abs(PixelY(p, width) - PixelY(q, width)) = 1

\* The set pixels reachable from the pixels of S through set 4-neighbours.
RECURSIVE Connected(_, _, _)
Connected(mask, width, S) ==
  LET grown == S \cup {q \in 1..Len(mask) :
                         mask[q] # 0 /\ \E p \in S : Adjacent4(p, q, width)}
  IN IF grown = S THEN S ELSE Connected(mask, width, grown)

\* C8: with minArea > 1 a set pixel is cleared iff its 4-connected component
\* has fewer than minArea pixels, and no other pixel changes (so the lone
\* 3 x 3 block goes with minArea = 10 and stays with minArea = 5); with
\* minArea <= 1 the mask comes back unchanged.  The end of a row and the
\* start of the next are not neighbours.
C8_RemovesExactlySmallComponents ==
  (pc = "done" /\ fn = "removeSmallComponents") =>
    /\ Len(ret) = Len(args.mask)
    /\ args.minArea <= 1 => ret = args.mask
    /\ args.minArea > 1 =>
         \A p \in 1..Len(args.mask) :
           ret[p] = IF /\ args.mask[p] # 0
                       /\ Cardinality(Connected(args.mask, args.width, {p})) < args.minArea
                    THEN 0 ELSE args.mask[p]

\* The lone 3 x 3 block in the middle of the 5 x 5 raster, removed whole
\* with minArea = 10.
C8_Witness ==
  /\ pc = "done"
  /\ fn = "removeSmallComponents"
  /\ args.width = 5
  /\ args.mask = BlockMask(1, 1)
  /\ args.minArea = 10
  /\ Popcount(ret) = 0

-----------------------------------------------------------------------------
(* Claims about applySpeckleFilter.                                        *)

\* C9: with filter none (also by default), or with any filter and size <= 1,
\* the returned buffer equals the input element for element; for every
\* filter and size the returned buffer is a new one, distinct from the
\* input, and the buffers the caller held are unchanged.
C9_SpeckleCopies ==
  (pc = "done" /\ fn = "applySpeckleFilter") =>
    /\ ret.ref \notin DOMAIN args.heap
    /\ ret.ref \in DOMAIN ret.heap
    /\ ret.ref # args.values
    /\ \A r \in DOMAIN args.heap : ret.heap[r] = args.heap[r]
    /\ Len(ret.heap[ret.ref]) = Len(args.heap[args.values])
    /\ (args.filter \in {"none", "undefined"} \/ OrElse(args.size, 3) <= 1) =>
         ret.heap[ret.ref] = args.heap[args.values]

\* A lee call with size 1 on a raster that is not flat: a copy in a new
\* buffer.
C9_Witness ==
  /\ pc = "done"
  /\ fn = "applySpeckleFilter"
  /\ args.filter = "lee"
  /\ args.size = Some(1)
  /\ Len(args.heap[args.values]) = MaxW * MaxH
  /\ \E i, j \in 1..Len(args.heap[args.values]) :
       args.heap[args.values][i] # args.heap[args.values][j]
  /\ ret.ref = 3
  /\ ret.heap[3] = args.heap[args.values]

-----------------------------------------------------------------------------
(* Claims about buildPolygon.                                              *)

\* p / q for finite p and q: 0/0 is NaN and n/0 an infinity, as in the code's
\* arithmetic.
NumDiv(p, q) ==
  IF q[1] = 0 THEN <<Sign(p[1]), 0>>
  ELSE IF q[1] > 0 THEN <<p[1] * q[2], p[2] * q[1]>>
  ELSE <<-(p[1] * q[2]), -(p[2] * q[1])>>

\* The number p is the integer n (false of NaN and the infinities).
NumIs(p, n) == NumFinite(p) /\ p[1] = n * p[2]

\* The inverse of the transform of buildPolygon:
\* px = ((lon - minX) / lonSpan) * max(width - 1, 1) and
\* py = ((maxY - lat) / latSpan) * max(height - 1, 1).
FromLon(lon, b, width) ==
  LET q == NumDiv(NumSub(lon, b[1]), NumSub(b[3], b[1]))
  IN IF NumFinite(q) THEN NumScale(Max(width - 1, 1), 1, q) ELSE q

FromLat(lat, b, height) ==
  LET q == NumDiv(NumSub(b[4], lat), NumSub(b[4], b[2]))
  IN IF NumFinite(q) THEN NumScale(Max(height - 1, 1), 1, q) ELSE q

\* The pixel corners (x, y), (x + w, y), (x + w, y + h), (x, y + h).
PixelCorners(bbox) ==
  {<<bbox.x, bbox.y>>, <<bbox.x + bbox.width, bbox.y>>,
   <<bbox.x + bbox.width, bbox.y + bbox.height>>, <<bbox.x, bbox.y + bbox.height>>}

FiniteBounds(b) == b # Undefined /\ \A k \in 1..4 : NumFinite(b[k])

\* The ring is closed, of 5 points.
ClosedRing(polygon) ==
  LET ring == polygon.geometry.coordinates[1]
  IN /\ polygon.type = "Feature"
     /\ Len(polygon.geometry.coordinates) = 1
     /\ Len(ring) = 5
     /\ ring[1] = ring[5]

\* The four corners of the ring, mapped back, are the pixel corners.
RoundTrip(polygon, bbox, b, width, height) ==
  LET ring == polygon.geometry.coordinates[1]
      back(k) == <<FromLon(ring[k][1], b, width), FromLat(ring[k][2], b, height)>>
      same(k, c) == NumIs(back(k)[1], c[1]) /\ NumIs(back(k)[2], c[2])
  IN /\ \A k \in 1..4 : \E c \in PixelCorners(bbox) : same(k, c)
     /\ \A c \in PixelCorners(bbox) : \E k \in 1..4 : same(k, c)

\* C10 as stated: for every finite bounds the result is a closed ring of 5
\* points whose corners map back to the pixel corners; without bounds the
\* result is null.
C10_RoundTripEveryFiniteBounds ==
  (pc = "done" /\ fn = "buildPolygon") =>
    /\ args.imageBounds = Undefined => ret = Null
    /\ FiniteBounds(args.imageBounds) =>
         /\ ret # Null
         /\ ClosedRing(ret)
         /\ RoundTrip(ret, args.bbox, args.imageBounds, args.width, args.height)

\* C10, amended: for every finite bounds the result is a closed ring of 5
\* points; when moreover maxX # minX and maxY # minY its corners map back to
\* the pixel corners; without bounds the result is null.
C10_RoundTripNonDegenerateBounds ==
  (pc = "done" /\ fn = "buildPolygon") =>
    /\ args.imageBounds = Undefined => ret = Null
    /\ FiniteBounds(args.imageBounds) =>
         /\ ret # Null
         /\ ClosedRing(ret)
         /\ (/\ ~NumIs(NumSub(args.imageBounds[3], args.imageBounds[1]), 0)
             /\ ~NumIs(NumSub(args.imageBounds[4], args.imageBounds[2]), 0)) =>
              RoundTrip(ret, args.bbox, args.imageBounds, args.width, args.height)

\* A box with four distinct corners on the largest raster, bounds with
\* west < east and south < north.
C10_Witness ==
  /\ pc = "done"
  /\ fn = "buildPolygon"
  /\ args.imageBounds = << <<-1, 1>>, <<0, 1>>, <<2, 1>>, <<2, 1>> >>
  /\ args.bbox = [x |-> 1, y |-> 1, width |-> 2, height |-> 1]
  /\ args.width = MaxW
  /\ args.height = MaxH
  /\ ret # Null
  /\ RoundTrip(ret, args.bbox, args.imageBounds, args.width, args.height)

-----------------------------------------------------------------------------
(* Claims about analyzeChange on rasters of different sizes.               *)

\* The pixel of the before raster whose cell holds the centre of pixel
\* (x, y) of the after raster's grid.
CentreSource(before, x, y, width, height) ==
  LET sx == ((2 * x + 1) * before.width) \div (2 * width)
      sy == ((2 * y + 1) * before.height) \div (2 * height)
  IN At(before.data, sy * before.width + sx)

\* C12: with before and after rasters of different sizes analyzeChange
\* returns a result: the before raster is resampled by nearest neighbour to
\* the after raster's size before the difference is taken, the resampler
\* reads only indices inside the before raster, and mask and diff have
\* afterWidth * afterHeight elements.
C12_ResampledToAfterSize ==
  (pc = "done" /\ fn = "analyzeChange"
     /\ <<args.before.width, args.before.height>>
          # <<args.after.width, args.after.height>>) =>
    LET w == args.after.width
        h == args.after.height
        nearest == [i \in 1..(w * h) |->
                      CentreSource(args.before, PixelX(i, w), PixelY(i, w), w, h)]
    IN /\ Len(ret.mask) = w * h
       /\ Len(ret.diff) = w * h
       /\ ret.originalWidth = w /\ ret.originalHeight = h
       /\ ResampleReads(args.before.width, args.before.height, w, h)
            \subseteq 0..(Len(args.before.data) - 1)
       /\ ret.diff = normalizeToUint8(absoluteDifference(nearest, args.after.data))

\* A 5 x 1 ramp against a 3 x 2 after raster with one bright pixel.
C12_Witness ==
  /\ pc = "done"
  /\ fn = "analyzeChange"
  /\ args.before.width = 5 /\ args.before.height = 1
  /\ args.after.width = 3 /\ args.after.height = 2
  /\ args.after.data[2] = 250
  /\ Len(ret.mask) = 6
  /\ Popcount(ret.mask) > 0

-----------------------------------------------------------------------------
(* Claims about settings outside their valid range.                        *)

\* The nearest valid settings: at least 2 clusters, contamination within
\* [0.0005, 0.5].
NearestValid(o) ==
  [o EXCEPT !.kmeansClusters = IF @ = Undefined THEN @ ELSE Some(Max(2, @[1])),
            !.contamination = IF @ = Undefined THEN @
                              ELSE Some(Min(5000, Max(5, @[1])))]

\* C13: computeMask with kmeansClusters < 2 returns the mask of 2 clusters,
\* with contamination below 0.0005 the mask of 0.0005 and above 0.5 the mask
\* of 0.5; applySpeckleFilter with size <= 0 returns (a copy of its input).
C13_OutOfRangeClamped ==
  /\ (pc = "done" /\ fn = "computeMask") =>
       /\ Len(ret) = Len(args.diff)
       /\ ret = computeMask(args.diff, args.width, args.height,
                            NearestValid(args.options))
  /\ (pc = "done" /\ fn = "applySpeckleFilter" /\ args.size[1] <= 0) =>
       ret.heap[ret.ref] = args.heap[args.values]

\* An isolation_forest run with contamination 0.9 whose mask, the one of
\* contamination 0.5, is not the one the rank of 0.9 would give.
C13_Witness ==
  /\ pc = "done"
  /\ fn = "computeMask"
  /\ args.options.algorithm = "isolation_forest"
  /\ args.options.contamination = Some(9000)
  /\ Popcount(ret) > 0
  /\ Popcount(ret) < Len(ret)
  /\ \E i \in 1..Len(ret) :
       /\ ret[i] = 0
       /\ args.diff[i] >= At(SortAscending(args.diff), RankIndex(Len(args.diff), 9000))

-----------------------------------------------------------------------------
(* Claims about degenerate difference rasters.                             *)

Uniform(mask) == \A i, j \in 1..Len(mask) : mask[i] = mask[j]

\* C14: when every pixel of the difference raster has the same value (in
\* particular for identical before and after rasters, whose difference is
\* all zero), each of the six algorithms returns a mask of the raster's
\* length that is entirely unset or entirely set.
C14_FlatDiffUniformMask ==
  /\ (pc = "done" /\ fn = "computeMask") =>
       /\ Len(ret) = Len(args.diff)
       /\ ret \in [1..Len(args.diff) -> {0, 1}]
       /\ Uniform(ret)
  /\ (pc = "done" /\ fn = "analyzeChange") =>
       /\ \A i \in 1..Len(ret.diff) : ret.diff[i] = 0
       /\ Len(ret.mask) = args.after.width * args.after.height
       /\ ret.mask \in [1..Len(ret.mask) -> {0, 1}]
       /\ Uniform(ret.mask)

\* The lof run on the 4 x 3 raster of value 20, whose windows differ in size
\* between the border columns and the inner ones.
C14_Witness ==
  /\ pc = "done"
  /\ fn = "computeMask"
  /\ args.options.algorithm = "lof"
  /\ args.width = 4
  /\ args.height = 3
  /\ args.diff[1] = 20
  /\ Popcount(ret) = 0

-----------------------------------------------------------------------------
(* Claims about the default threshold of nonMaximumSuppression.            *)

\* The boxes of the input that the claim's rule keeps under the given
\* threshold, in the order of the call's confidence sort.
KeptUnder(thr) == nonMaximumSuppression(boxes, thr).keep

\* C16: called without an explicit threshold, nonMaximumSuppression uses an
\* IoU threshold of 0.35: its result is the one of the explicit threshold
\* 0.35, so a box whose IoU with an already kept box of higher confidence
\* is in [0.30, 0.35) is kept.
C16_DefaultThresholdIsPoint35 ==
  (pc = "done" /\ threshold = Undefined) => keep = KeptUnder(<<7, 20>>)

-----------------------------------------------------------------------------
(* Claims about the stages of postProcessMask.                             *)

StageOrder == <<"opening", "closing", "fillHoles", "removeSmallComponents">>

StageActive(stage, o) ==
  CASE stage = "opening" -> o.openingRadius > 0
    [] stage = "closing" -> o.closingRadius > 0
    [] stage = "fillHoles" -> o.fillHoles
    [] stage = "removeSmallComponents" -> o.minBlobArea > 1

StageResult(stage, m, w, h, o) ==
  CASE stage = "opening" ->
         dilate(erode(m, w, h, o.openingRadius), w, h, o.openingRadius)
    [] stage = "closing" ->
         erode(dilate(m, w, h, o.closingRadius), w, h, o.closingRadius)
    [] stage = "fillHoles" -> fillHoles(m, w, h)
    [] stage = "removeSmallComponents" ->
         removeSmallComponents(m, w, h, o.minBlobArea)

\* The mask after the first k stages of StageOrder, the inactive ones
\* skipped.
RECURSIVE AfterStages(_, _, _, _, _)
AfterStages(k, m, w, h, o) ==
  IF k = 0 THEN m
  ELSE LET before == AfterStages(k - 1, m, w, h, o)
       IN IF StageActive(StageOrder[k], o)
          THEN StageResult(StageOrder[k], before, w, h, o)
          ELSE before

\* C18: the mask postProcessMask returns is the composition of the active
\* stages in the order opening, closing, fillHoles, removeSmallComponents
\* (a stage is active when openingRadius > 0, closingRadius > 0, fillHoles
\* is true, minBlobArea > 1; a skipped stage changes nothing); the caller's
\* mask is not modified and the result has the same length.
C18_StagesInFixedOrder ==
  (pc = "done" /\ fn = "postProcessMask") =>
    /\ ret.heap[ret.ref] =
         AfterStages(4, args.heap[args.mask], args.width, args.height, args.options)
    /\ Len(ret.heap[ret.ref]) = Len(args.heap[args.mask])
    /\ ret.heap[args.mask] = args.heap[args.mask]
    /\ \A r \in 1..Len(args.heap) : ret.heap[r] = args.heap[r]

\* A call with all four stages active in which opening and closing do not
\* commute and the mask changes.
C18_Witness ==
  /\ pc = "done"
  /\ fn = "postProcessMask"
  /\ \A k \in 1..4 : StageActive(StageOrder[k], args.options)
  /\ ret.heap[ret.ref] # args.heap[args.mask]
  /\ LET m == args.heap[args.mask]
         w == args.width
         h == args.height
         o == args.options
     IN StageResult("opening", StageResult("closing", m, w, h, o), w, h, o)
          # StageResult("closing", StageResult("opening", m, w, h, o), w, h, o)

-----------------------------------------------------------------------------
(* Claims about fillHoles.                                                 *)

\* The pixels (1-based positions) on the border of the raster.
BorderPixels(width, height) ==
  {p \in 1..(width * height) :
     \/ PixelX(p, width) \in {0, width - 1}
     \/ PixelY(p, width) \in {0, height - 1}}

\* The unset pixels reachable from the pixels of S through unset pixels
\* adjacent in a row or in a column.
RECURSIVE UnsetReach(_, _, _)
UnsetReach(mask, width, S) ==
  LET grown == S \cup {q \in 1..Len(mask) :
                         mask[q] = 0 /\ \E p \in S : Adjacent4(p, q, width)}
  IN IF grown = S THEN S ELSE UnsetReach(mask, width, grown)

\* The unset pixels connected to the border.
Background(mask, width, height) ==
  UnsetReach(mask, width, {p \in BorderPixels(width, height) : mask[p] = 0})

\* C19: in the mask fillHoles returns a pixel is set iff it was set in the
\* input or it is an unset pixel that no path of 4-adjacent unset pixels
\* joins to an unset border pixel; set pixels stay set, unset pixels
\* connected to the border stay unset, and the end of a row is not adjacent
\* to the start of the next.
C19_FillsExactlyEnclosedPixels ==
  (pc = "done" /\ fn = "fillHoles") =>
    /\ Len(ret) = Len(args.mask)
    /\ \A p \in 1..Len(ret) :
         ret[p] = IF args.mask[p] # 0 THEN args.mask[p]
                  ELSE IF p \in Background(args.mask, args.width, args.height)
                       THEN 0 ELSE 1

\* A mask with an enclosed pixel, which is filled, and two adjacent unset
\* pixels that stay unset.
C19_Witness ==
  /\ pc = "done"
  /\ fn = "fillHoles"
  /\ \E p \in 1..Len(ret) : args.mask[p] = 0 /\ ret[p] = 1
  /\ \E q, r \in 1..Len(ret) :
       /\ Adjacent4(q, r, args.width)
       /\ ret[q] = 0
       /\ ret[r] = 0

-----------------------------------------------------------------------------
(* Claims about the otsu algorithm.                                        *)

\* The between-class variance of the split at bin t, values <= t against
\* values > t, as a quotient: wB * wF * (mB - mF)^2, and 0 when one of the
\* classes is empty.
VarianceAt(values, t) ==
  LET low == {i \in 1..Len(values) : values[i] <= t}
      wB == Cardinality(low)
      wF == Len(values) - wB
      sumB == SeqSum([i \in 1..Len(values) |-> IF i \in low THEN values[i] ELSE 0])
      sumF == SeqSum(values) - sumB
      x == sumF * wB - sumB * wF
  IN IF wB = 0 \/ wF = 0 THEN <<0, 1>> ELSE <<x * x, wB * wF>>

\* t is the lowest of the 256 bins that attains the maximum variance.
LowestMaxBin(values, t) ==
  LET vt == VarianceAt(values, t)
  IN /\ t \in 0..255
     /\ \A u \in 0..255 :
          LET vu == VarianceAt(values, u)
          IN IF u < t THEN FracGT(vt[1], vt[2], vu[1], vu[2])
             ELSE ~FracGT(vu[1], vu[2], vt[1], vt[2])

\* The threshold of the claim for a computeMask call.
OtsuRuleThreshold(diff, manual) ==
  IF manual # Undefined THEN Round(manual[1] * 255, manual[2])
  ELSE CHOOSE t \in 0..255 : LowestMaxBin(diff, t)

\* C20: in the otsu algorithm the threshold is round(otsuManualThreshold *
\* 255) when a manual threshold is supplied, and otherwise the lowest of the
\* 256 bins that attains the maximum between-class variance; a pixel is set
\* iff its value is strictly greater than the threshold.
C20_OtsuThresholdRule ==
  /\ (pc = "done" /\ fn = "otsuThreshold") => LowestMaxBin(args.values, ret)
  /\ (pc = "done" /\ fn = "computeMask") =>
       LET thr == OtsuRuleThreshold(args.diff, args.options.otsuManualThreshold)
       IN /\ Len(ret) = Len(args.diff)
          /\ \A i \in 1..Len(ret) : ret[i] = IF args.diff[i] > thr THEN 1 ELSE 0

\* An otsuThreshold call in which the bin above the threshold attains the
\* same, maximal, variance, and the lower bin is the result.
C20_Witness ==
  /\ pc = "done"
  /\ fn = "otsuThreshold"
  /\ ret > 0
  /\ VarianceAt(args.values, ret + 1) = VarianceAt(args.values, ret)
  /\ VarianceAt(args.values, ret)[1] > 0

\* A computeMask call with the manual threshold 1/2, which rounds up to 128:
\* the pixels of value 128 are unset and those of value 129 set.
C20_ManualWitness ==
  /\ pc = "done"
  /\ fn = "computeMask"
  /\ args.options.otsuManualThreshold = <<1, 2>>
  /\ \E i, j \in 1..Len(ret) :
       /\ args.diff[i] = 128 /\ ret[i] = 0
       /\ args.diff[j] = 129 /\ ret[j] = 1

-----------------------------------------------------------------------------
(* Claims about detectObjects.                                             *)

\* The panels whose detectObjects call has returned a result.
Returned ==
  {p \in 1..Len(panels) :
     /\ panels[p].detection # Null
     /\ "boxes" \in DOMAIN panels[p].detection}

\* C15: the number of boxes detectObjects returns never exceeds
\* options.maxDetections (when maxDetections >= 1), the boxes of the three
\* scale passes and of both fallback masks counted together.
C15_AtMostMaxDetections ==
  \A p \in Returned :
    (panels[p].maxDetections # Undefined /\ panels[p].maxDetections[1] >= 1) =>
      Len(panels[p].detection.boxes) <= panels[p].maxDetections[1]

\* C17: every box detectObjects returns lies inside the raster, in native
\* pixels: x >= 0, y >= 0, width >= 1, height >= 1, x + width <= raster
\* width and y + height <= raster height, whatever scale it was found at and
\* whatever the raster size.
C17_BoxesInsideRaster ==
  \A p \in Returned :
    \A k \in 1..Len(panels[p].detection.boxes) :
      LET b == panels[p].detection.boxes[k].bbox
      IN /\ b.x >= 0
         /\ b.y >= 0
         /\ b.width >= 1
         /\ b.height >= 1
         /\ b.x + b.width <= panels[p].detection.width
         /\ b.y + b.height <= panels[p].detection.height

\* What detectObjects stores for the debug masks of a panel's own run.
OwnDebug(panel) ==
  DetectRun(panel.afterImage.tiff, PanelOptions(panel), TRUE).lastDebug[1]

\* C11: detectObjects keeps no mutable state shared between invocations:
\* the debug mask artifacts a caller finds for its invocation are those of
\* that invocation's own input, also when another invocation starts or
\* finishes before the caller reads them.
C11_DebugMasksAreOwn ==
  \A p \in 1..Len(panels) :
    (panels[p].results # Null /\ "debugMaskUrls" \in DOMAIN panels[p].results) =>
      panels[p].results.debugMaskUrls = OwnDebug(panels[p])

-----------------------------------------------------------------------------
(* Claims about the rank thresholds of computeMask.                        *)

\* The element at (0-based) index k of the values sorted ascending.
KthSmallest(values, k) ==
  CHOOSE v \in {values[i] : i \in 1..Len(values)} :
    /\ Cardinality({i \in 1..Len(values) : values[i] < v}) <= k
    /\ k < Cardinality({i \in 1..Len(values) : values[i] <= v})

\* The scores the rank threshold is taken on: the values themselves for
\* isolation_forest, and for pca the absolute z-scores |v - mean| / std,
\* which are ordered as |n * v - sum|.
RankScores(values, algorithm) ==
  IF algorithm = "isolation_forest" THEN values
  ELSE [i \in 1..Len(values) |-> Abs(Len(values) * values[i] - SeqSum(values))]

\* C21: for isolation_forest on n >= 1 pixels, with contamination c clamped
\* to [0.0005, 0.5], the threshold is the element of the ascending-sorted
\* values at index round(n * (1 - c)) clamped to [0, n - 1], a pixel is set
\* iff its value >= that threshold, and the mask is never empty; pca applies
\* the same rank and the same test to the absolute z-scores.
C21_RankThreshold ==
  (pc = "done" /\ fn = "computeMask"
     /\ args.options.algorithm \in {"isolation_forest", "pca"}) =>
    LET n == Len(args.diff)
        given == args.options.contamination
        c == Min(5000, Max(5, IF given = Undefined THEN 100 ELSE given[1]))
        k == Max(0, Min(n - 1, Round(n * (10000 - c), 10000)))
        scores == RankScores(args.diff, args.options.algorithm)
        t == KthSmallest(scores, k)
    IN /\ Len(ret) = n
       /\ \A i \in 1..n : (ret[i] = 1) <=> (scores[i] >= t)
       /\ \A i \in 1..n : ret[i] \in {0, 1}
       /\ Popcount(ret) >= 1

\* An isolation_forest run on three distinct values with contamination 0.4:
\* n * (1 - c) = 1.8 rounds to the last index, and only the highest value is
\* set.
C21_Witness ==
  /\ pc = "done"
  /\ fn = "computeMask"
  /\ args.options.algorithm = "isolation_forest"
  /\ args.options.contamination = Some(4000)
  /\ args.diff = <<50, 0, 100>>
  /\ ret = <<0, 0, 1>>

-----------------------------------------------------------------------------
(* Claims about normalizeToUint8 and normalize.                            *)

\* The finite sample at index round(p / 100 * (n - 1)) of the n finite samples
\* sorted ascending, 0 when there is none; p in tenths of a percent.
PercentileAt(values, p10) ==
  LET finite == SelectSeq(values, IsFinite)
  IN IF finite = <<>> THEN 0
     ELSE KthSmallest(finite, Round(p10 * (Len(finite) - 1), 1000))

\* The stretch from [lo, hi] to 0..255, where hi is the 98th percentile for
\* normalizeToUint8 and the 99.5th for normalize: non-finite samples and
\* samples <= lo become 0, samples >= hi become 255 when hi > lo (and, with
\* floored, when hi - lo reaches the range floor), the mapping is monotone
\* and stays in 0..255.
StretchLaw(floored) ==
  (pc = "done" /\ fn \in {"normalizeToUint8", "normalize"}) =>
    LET values == args.values
        lo == PercentileAt(values, 20)
        hi == PercentileAt(values, IF fn = "normalize" THEN 995 ELSE 980)
        wide == (hi - lo) * args.floor[2] >= args.floor[1]
    IN /\ Len(ret) = Len(values)
       /\ \A i \in 1..Len(values) :
            /\ ret[i] \in 0..255
            /\ ~IsFinite(values[i]) => ret[i] = 0
            /\ (IsFinite(values[i]) /\ values[i] <= lo) => ret[i] = 0
            /\ (IsFinite(values[i]) /\ values[i] >= hi /\ hi > lo
                  /\ (floored => wide)) => ret[i] = 255
            /\ \A j \in 1..Len(values) :
                 (IsFinite(values[i]) /\ IsFinite(values[j])
                    /\ values[i] <= values[j]) => ret[i] <= ret[j]

\* C22 as stated: p2 and p98 are the sorted finite samples at index
\* round(p / 100 * (n - 1)) (0 when there is none), a sample <= p2 maps to 0,
\* every finite sample >= p98 maps to 255 whenever p98 > p2, the mapping is
\* monotone, non-finite samples map to 0, every result is in 0..255, and
\* normalize differs only in using the 99.5th percentile.
C22_StretchAsStated == StretchLaw(FALSE)

\* C22, amended: as stated, except that finite samples >= p98 map to 255
\* when p98 - p2 is at least the range floor 1e-6; with a smaller positive
\* spread the samples are divided by 1e-6 and may stay below 255.
C22_StretchAboveFloor == StretchLaw(TRUE)

\* Samples 0, 2^-22 and 3 * 2^-22 around a NaN: the spread is below 1e-6 and
\* the largest sample maps to 182.
C22_Witness ==
  /\ pc = "done"
  /\ fn = "normalizeToUint8"
  /\ args.floor = FineUnit
  /\ Len(args.values) = 4
  /\ ~IsFinite(args.values[3])
  /\ SelectSeq(args.values, IsFinite) = <<0, 1, 3>>
  /\ ret = <<0, 61, 0, 182>>

-----------------------------------------------------------------------------
(* Claims about floodFillComponents.                                       *)

\* Two indices of a raster that differ by at most 1 in both x and y.
Touching(a, b, width) ==
  /\ Abs((a % width) - (b % width)) <= 1
  /\ Abs((a \div width) - (b \div width)) <= 1

\* The set pixels linked to the pixels of reached by a chain of touching set
\* pixels.
RECURSIVE Linked(_, _, _)
Linked(reached, mask, width) ==
  LET more == {b \in 0..(Len(mask) - 1) :
                 /\ At(mask, b) # 0
                 /\ \E a \in reached : Touching(a, b, width)}
  IN IF more \subseteq reached THEN reached
     ELSE Linked(reached \cup more, mask, width)

\* C23: floodFillComponents returns exactly the 8-connected components of the
\* set pixels: every set pixel is in exactly one component, no unset pixel is
\* in any, and two set pixels share a component iff a chain of set pixels
\* that differ by at most 1 in both x and y links them.
C23_EightConnectedComponents ==
  (pc = "done" /\ fn = "floodFillComponents") =>
    LET mask == args.mask
        pixels == 0..(Len(mask) - 1)
        Members(c) == {ret[c][k] : k \in 1..Len(ret[c])}
    IN /\ \A a \in pixels :
            Cardinality({<<c, k>> \in (1..Len(ret)) \X (1..Len(mask)) :
                           k <= Len(ret[c]) /\ ret[c][k] = a})
              = IF At(mask, a) # 0 THEN 1 ELSE 0
       /\ \A c \in 1..Len(ret) :
            \A a \in Members(c) : Members(c) = Linked({a}, mask, args.width)

-----------------------------------------------------------------------------
(* Claims about the linearity of buildDetectionBoxes.                      *)

\* C24: for every component whose bounding box is narrower than the raster,
\* the linearity is the number of the component's pixels that remain set in
\* the thinned component mask, each looked up at its own position inside the
\* bounding box, over the number of the component's pixels.
C24_LinearityAtOwnPosition ==
  (pc = "done" /\ fn = "linearity") =>
    \A c \in 1..Len(ret) :
      LET bbox == ret[c].bbox
          pixels == ret[c].pixels
          skel == zhangSuenThin(ComponentMask(args.mask, args.width, bbox),
                                bbox.width, bbox.height)
          kept == {k \in 1..Len(pixels) :
                     LET px == (pixels[k] % args.width) - bbox.x
                         py == (pixels[k] \div args.width) - bbox.y
                     IN At(skel, py * bbox.width + px) # 0}
      IN bbox.width < args.width =>
           ret[c].linearity = Q(Cardinality(kept), Len(pixels))

-----------------------------------------------------------------------------
(* Claims about the categories of buildDetectionBoxes.                     *)

\* The components buildDetectionBoxes does not skip.
MeasuredComponents ==
  SelectSeq(floodFillComponents(args.mask, args.width, args.height),
            LAMBDA pixels :
              LET bbox == ComponentBBox(pixels, args.width, args.height)
              IN /\ Len(pixels) >= args.options.minAreaPixels
                 /\ bbox.width * bbox.height >= args.options.minAreaPixels)

\* Whether the box is the one the claim describes for the component.
CategoryAsRuled(box, pixels) ==
  LET metrics == ComponentMetrics(pixels, box.bbox)
      linearity == SkeletonLinearity(pixels, args.mask, args.width, box.bbox)
      major == Max(box.bbox.width, box.bbox.height)
      minor == Min(box.bbox.width, box.bbox.height)
  IN /\ box.categoryId =
          IF 4 * linearity[1] > linearity[2] /\ major >= 20
          THEN IF major > 3 * minor \/ major > 50 THEN "bridge" ELSE "border-wall"
          ELSE classifyUrbanFeature(metrics).categoryId
     /\ box.label = CATEGORY_LABELS[box.categoryId]
     /\ box.confidence[1] >= 0
     /\ box.confidence[1] <= box.confidence[2]

\* C25: whenever linearity > 0.25 and the major side >= 20, the box is a
\* bridge if aspect ratio > 3 or major side > 50 and a border-wall otherwise,
\* whatever classifyUrbanFeature chose; otherwise its category is the choice
\* of classifyUrbanFeature; the label is the display label of the category
\* and the confidence lies in [0, 1].
C25_ForcedCategory ==
  (pc = "done" /\ fn = "buildDetectionBoxes") =>
    /\ Len(ret) = Len(MeasuredComponents)
    /\ \A k \in 1..Len(ret) : CategoryAsRuled(ret[k], MeasuredComponents[k])

\* A corner of 51 by 17 pixels: aspect ratio 3, major side above 50, forced
\* to bridge where classifyUrbanFeature chose border-wall.
C25_Witness ==
  /\ pc = "done"
  /\ fn = "buildDetectionBoxes"
  /\ args.width = 51
  /\ args.height = 17
  /\ Len(ret) = 1
  /\ ret[1].bbox = [x |-> 0, y |-> 0, width |-> 51, height |-> 17]
  /\ ret[1].categoryId = "bridge"
  /\ ret[1].label = "Bridge"
  /\ classifyUrbanFeature(ComponentMetrics(MeasuredComponents[1],
                                           ret[1].bbox)).categoryId = "border-wall"

-----------------------------------------------------------------------------
(* Claims about the fallback of detectObjects.                             *)

\* The boxes of the multi-scale pass after its suppression.
MultiScaleBoxes(tiff, options) ==
  Suppressed(
    Renumber(AllBoxes(ArrayOf([k \in 1..Len(ScaleFactors) |->
                                 ScalePass(normalize(tiff.data), tiff.width,
                                           tiff.height, options, ScaleFactors[k])]),
                      tiff.width, options),
             "ms"),
    <<7, 20>>)

\* A box without the fields the preview adds.
BoxCore(b) ==
  [id |-> b.id, label |-> b.label, categoryId |-> b.categoryId,
   confidence |-> b.confidence, bbox |-> b.bbox, areaPixels |-> b.areaPixels,
   centroid |-> b.centroid, notes |-> b.notes]

BoxCores(bs) == [k \in 1..Len(bs) |-> BoxCore(bs[k])]

\* Whether the mean vertical position of the boxes is below 20% of the
\* height: the position of a box is its centroid.y, or the centre
\* bbox.y + bbox.height / 2 of its bounding box.
NearTop(bs, height, byCentroid) ==
  /\ bs # <<>>
  /\ IF byCentroid
     THEN QLess(QMul(<<5, 1>>,
                     QSum(ArrayOf([k \in 1..Len(bs) |-> bs[k].centroid.y]))),
                <<Len(bs) * height, 1>>)
     ELSE 5 * SeqSum([k \in 1..Len(bs) |-> 2 * bs[k].bbox.y + bs[k].bbox.height])
            < 2 * Len(bs) * height

\* The fallback runs iff the multi-scale pass leaves fewer than 12 boxes or
\* they lie near the top; without it the result is the multi-scale result,
\* with it one suppression at 0.35 of the multi-scale, lower-percentile and
\* adaptive boxes together.
CascadeLaw(byCentroid) ==
  (pc = "done" /\ fn = "detectObjects") =>
    LET options == args.options @@ DEFAULT_OPTIONS
        ms == MultiScaleBoxes(args.tiff, options)
        needed == Len(ms) < 12 \/ NearTop(ms, args.tiff.height, byCentroid)
        fb == Fallback(normalize(args.tiff.data), args.tiff.width,
                       args.tiff.height, options)
    IN /\ (ret.lastDebug[1].alt # Null) <=> needed
       /\ (ret.lastDebug[1].local # Null) <=> needed
       /\ BoxCores(ret.result.boxes)
            = BoxCores(IF needed
                       THEN Suppressed(Renumber(ms \o fb.altBoxes \o fb.localBoxes,
                                                "m"),
                                       <<7, 20>>)
                       ELSE ms)

\* C26 as stated: the fallback masks are computed and merged iff the
\* multi-scale pass leaves fewer than 12 boxes or the mean of the boxes'
\* vertical centroids is below 20% of the image height.
C26_FallbackByCentroid == CascadeLaw(TRUE)

\* C26, amended: the vertical position that is averaged is the centre
\* bbox.y + bbox.height / 2 of each bounding box.
C26_FallbackByBoxCentre == CascadeLaw(FALSE)

\* Twelve or more boxes whose centroids lie in the top fifth while their box
\* centres do not: no fallback mask is computed.
C26_Witness ==
  /\ pc = "done"
  /\ fn = "detectObjects"
  /\ Len(ret.result.boxes) >= 12
  /\ ret.lastDebug[1].alt = Null
  /\ NearTop(ret.result.boxes, args.tiff.height, TRUE)
  /\ ~NearTop(ret.result.boxes, args.tiff.height, FALSE)

-----------------------------------------------------------------------------
(* Claims about zhangSuenThin.                                             *)

\* The reference algorithm on the same pixels: the first sub-iteration
\* removes when N*E*S = 0 and E*S*W = 0, the second when N*E*W = 0 and
\* N*S*W = 0; vals holds NW, N, NE, E, SE, S, SW, W.
ReferenceRemoves(img, width, x, y, pass) ==
  LET vals == [k \in 1..8 |->
                 IF At(img, (y + NeighborCoords[k][2]) * width
                              + x + NeighborCoords[k][1]) # 0
                 THEN 1 ELSE 0]
      neighbors == Cardinality({k \in 1..8 : vals[k] = 1})
      transitions == Cardinality({k \in 0..7 :
                                    vals[k + 1] = 0 /\ vals[((k + 1) % 8) + 1] = 1})
      north == vals[2]
      east == vals[4]
      south == vals[6]
      west == vals[8]
  IN /\ At(img, y * width + x) # 0
     /\ neighbors >= 2
     /\ neighbors <= 6
     /\ transitions = 1
     /\ IF pass = 0 THEN north * east * south = 0 /\ east * south * west = 0
                    ELSE north * east * west = 0 /\ north * south * west = 0

ReferencePass(img, width, height, pass) ==
  LET toRemove == {i \in 0..(Len(img) - 1) :
                     /\ i % width \in 1..(width - 2)
                     /\ i \div width \in 1..(height - 2)
                     /\ ReferenceRemoves(img, width, i % width, i \div width, pass)}
  IN [img |-> ArrayOf([k \in 1..Len(img) |->
                         IF (k - 1) \in toRemove THEN 0 ELSE img[k]]),
      changing |-> toRemove # {}]

RECURSIVE ReferenceThin(_, _, _)
ReferenceThin(img, width, height) ==
  LET first == ReferencePass(img, width, height, 0)
      second == ReferencePass(first.img, width, height, 1)
  IN IF first.changing \/ second.changing
     THEN ReferenceThin(second.img, width, height)
     ELSE second.img

\* C27: the result of zhangSuenThin equals that of the reference Zhang-Suen
\* algorithm with its two different sub-iterations, and is a subset of the
\* input.
C27_EqualsReferenceSkeleton ==
  (pc = "done" /\ fn = "zhangSuenThin") =>
    /\ ret = ReferenceThin(args.mask, args.width, args.height)
    /\ \A k \in 1..Len(ret) : ret[k] # 0 => args.mask[k] # 0

-----------------------------------------------------------------------------
(* Claims about the merge of model boxes in handleRunDetection.            *)

\* Whether box a of the panel's detection overlaps the model box m at least
\* as much as every algorithmic box does, and by 0.35 or more.
BestOverlapping(panel, a, m) ==
  /\ RatGE(iou(a.bbox, m.bbox), <<7, 20>>)
  /\ \A k \in 1..Len(panel.detection.boxes) :
       RatGE(iou(a.bbox, m.bbox), iou(panel.detection.boxes[k].bbox, m.bbox))

\* C28: in the published boxes no model box appears alongside the
\* algorithmic box that overlaps it best with an IoU of 0.35 or more.
C28_ModelBoxReplacesOverlap ==
  \A p \in 1..Len(panels) :
    (panels[p].results # Null /\ panels[p].results.modelAvailable) =>
      \A i, j \in 1..Len(panels[p].results.boxes) :
        ~ /\ panels[p].results.boxes[i].notes = "model"
          /\ panels[p].results.boxes[j].notes # "model"
          /\ \E k \in 1..Len(panels[p].detection.boxes) :
               panels[p].detection.boxes[k].id = panels[p].results.boxes[j].id
          /\ BestOverlapping(panels[p], panels[p].results.boxes[j],
                             panels[p].results.boxes[i])

-----------------------------------------------------------------------------
(* Claims about the ids of the boxes detectObjects returns.                *)

\* C29: the boxes detectObjects returns have pairwise distinct ids, with and
\* without the fallback.
C29_DistinctIds ==
  (pc = "done" /\ fn = "detectObjects") =>
    \A i, j \in 1..Len(ret.result.boxes) :
      ret.result.boxes[i].id = ret.result.boxes[j].id => i = j

\* A run without fallback that returns boxes of more than one scale, each
\* scale having numbered its boxes from det-1.
C29_Witness ==
  /\ pc = "done"
  /\ fn = "detectObjects"
  /\ ret.lastDebug[1].alt = Null
  /\ Len(ret.result.boxes) > 12
  /\ \E i, j \in 1..Len(ret.result.boxes) :
       ret.result.boxes[i].bbox.width # ret.result.boxes[j].bbox.width

-----------------------------------------------------------------------------
(* Claims about the labeling history.                                      *)

\* The newest `limit` entries of a list of calls, newest first.
NewestFirst(calls, limit) ==
  ArrayOf([i \in 1..Min(limit, Len(calls)) |-> calls[Len(calls) + 1 - i]])

\* C30: after any sequence of persistLabelingSnapshot and persistLabelExport
\* calls, the stored snapshot history holds at most 50 entries, newest first,
\* and equals the min(50, number of calls) most recently persisted summaries;
\* the same holds of the export history and the payloads; each history
\* depends on the calls of its own function only.
C30_HistoriesNewestFirst ==
  \A key \in {SNAPSHOT_KEY, EXPORT_KEY} :
    /\ Len(readStore(storage, key)) <= 50
    /\ readStore(storage, key) = NewestFirst(persisted[key], 50)

\* Both functions were called more often than the histories are long, and
\* a different number of times.
C30_Witness ==
  /\ Len(persisted[SNAPSHOT_KEY]) > 50
  /\ Len(persisted[EXPORT_KEY]) > 50
  /\ Len(persisted[SNAPSHOT_KEY]) # Len(persisted[EXPORT_KEY])
  /\ Len(readStore(storage, SNAPSHOT_KEY)) = 50
  /\ Len(readStore(storage, EXPORT_KEY)) = 50

====
